---- MODULE Spec2Model ----
(***************************************************************************)
(* Client-side real-time connection manager (WebSocketManager) and         *)
(* resilient request client (ApiClient) of frontend/src/lib/api.ts.        *)
(*                                                                         *)
(* The connection manager runs on the single-threaded UI event loop: every *)
(* public call and every socket event handler runs to completion, so each  *)
(* is one atomic action.  The transport is socket.io-client (v3+/v4 API:   *)
(* "import { io } from 'socket.io-client'"); its behaviour towards the     *)
(* manager is modelled by the Socket* actions below:                       *)
(*   - io(url, opts) returns a new Socket on a new Manager and starts      *)
(*     opening it (autoConnect); a second io() for the same namespace does *)
(*     not reuse or close the first;                                       *)
(*   - with reconnection: true the socket retries by itself after a failed *)
(*     open and after a transport loss, up to reconnectionAttempts times;  *)
(*   - 'connect' fires on every (re)connection, 'connect_error' on every   *)
(*     failed attempt, 'disconnect' whenever a connected socket closes;    *)
(*   - after reason 'io server disconnect' or socket.disconnect() the      *)
(*     socket does not reconnect by itself;                                *)
(*   - 'reconnect' and 'reconnect_error' are Manager events and never fire *)
(*     on the Socket, so the handlers of lines 496-503 never run.          *)
(***************************************************************************)
EXTENDS Integers, Sequences, FiniteSets

VARIABLES
    \* ---- WebSocketManager (api.ts 398-699)
    socket,            \* this.socket: 0 is null, else an index into sockets
    reconnectAttempts, \* this.reconnectAttempts
    isConnecting,      \* this.isConnecting
    messageQueue,      \* this.messageQueue: sequence of message ids
    sockets,           \* every Socket io() has returned, in creation order
    wire,              \* what socket.emit('message', m) handed to a connected transport
    sendCount,         \* number of send() calls so far; the k-th call carries message k
    hidden,            \* document.hidden
    enableWebSocket,   \* config.enableWebSocket
    connectReturn,     \* what the connect() call made by the latest step returned, if it was one
    \* ---- ApiClient.request (api.ts 127-159)
    pc,                \* position of the one request() call: idle/attempting/sleeping/returned/thrown
    customRetryConfig, \* the call's customRetryConfig
    attempt,           \* the loop variable
    attemptsMade,      \* number of this.client.request() calls made
    lastRaw,           \* what the transport produced for the latest attempt
    lastError,         \* the local lastError
    only503,           \* every failed attempt so far failed with status 503
    sleeps,            \* the delays passed to sleep(), in order
    outcome,           \* what request() returned or threw
    \* ---- useAgentStore (store/agentStore.ts) and the clock
    now,               \* Date.now(), in clock ticks; 0 stands for an absent timestamp
    agents,            \* state.agents
    workflows,         \* state.workflows
    activeWorkflow,    \* state.activeWorkflow
    pendingApprovals,  \* state.pendingApprovals
    isExecuting,       \* state.isExecuting
    currentTask,       \* state.currentTask
    activityLog,       \* state.activityLog
    activityCount,     \* number of addActivity calls since the log was last empty
    lastOp,            \* the store action or push event the latest step ran
    \* ---- WebSocketManager's registry of listeners
    eventListeners,    \* this.eventListeners: for each event its callbacks, in order
    delivered,         \* the callbacks the latest emit() invoked, in order
    escaped,           \* an exception left the latest emit()
    \* ---- AuthManager and the browser's localStorage
    tokens,            \* this.tokens
    user,              \* this.user
    localStorage,      \* the items under the keys auth_tokens and auth_user
    authPc,            \* for login, logout and refreshTokens: idle, or awaiting fetch
    lastAuthOp,        \* what the latest step of the AuthManager did
    \* ---- the approval and input gates (ApprovalModal, InputModal)
    gate,              \* the tool call the framework renders: tool, args.input_type, status
    inputValue,        \* InputModal's inputValue, a sequence of characters
    reasonValue,       \* ApprovalModal's reason
    responses,         \* what respond was invoked with for this call, in order
    calls,             \* number of tool calls the framework has made
    \* ---- useAgentOrchestration
    hookIsExecuting,   \* the hook's isExecuting
    hookCurrentTask,   \* the hook's currentTask
    handlers,          \* the tool handlers invoked so far: tool, agent_type, pc
    \* ---- useWebSocket
    isConnected,       \* the hook's isConnected state
    \* ---- request headers
    headers            \* the headers of the latest request, or getAuthHeaders() result

wsVars == <<socket, reconnectAttempts, isConnecting, messageQueue, sockets, wire,
            sendCount, hidden, enableWebSocket, connectReturn>>
apiVars == <<pc, customRetryConfig, attempt, attemptsMade, lastRaw, lastError,
             only503, sleeps, outcome>>
storeVars == <<now, agents, workflows, activeWorkflow, pendingApprovals, isExecuting,
               currentTask, activityLog, activityCount, lastOp>>
listenerVars == <<eventListeners, delivered, escaped>>
authVars == <<tokens, user, localStorage, authPc, lastAuthOp>>
gateVars == <<gate, inputValue, reasonValue, responses, calls>>
hookVars == <<hookIsExecuting, hookCurrentTask, handlers>>
webSocketHookVars == <<isConnected>>
headerVars == <<headers>>
pageVars == <<authVars, gateVars, hookVars, webSocketHookVars, headerVars>>
restVars == <<listenerVars, pageVars>>
vars == <<wsVars, apiVars, storeVars, restVars>>

\* ------------------------------------------------------------------ bounds
MaxSockets == 2
MaxMsgs == 3
MaxCustomAttempts == 8
MaxClock == 2
MaxApprovals == 2
MaxWorkflows == 1
MaxEvents == 1
MaxActivityCalls == 105
MaxListeners == 2
MaxCalls == 1
MaxResponds == 2
MaxHandlers == 3

\* ------------------------------------------------------- program constants
maxReconnectAttempts == 5
RetryAttempts == 3
RetryDelay == 1000
MaxDelay == 30000
BackoffFactor == 2
ActivityKept == 99
ActivityCapacity == 100

\* ============================================================ WebSocketManager

\* The manager's fields as one record, so that the methods below are functions
\* from manager state to manager state and can call one another as the code does.
M == [socket |-> socket, reconnectAttempts |-> reconnectAttempts,
      isConnecting |-> isConnecting, messageQueue |-> messageQueue,
      sockets |-> sockets, wire |-> wire]

SetM(m) ==
    /\ socket' = m.socket
    /\ reconnectAttempts' = m.reconnectAttempts
    /\ isConnecting' = m.isConnecting
    /\ messageQueue' = m.messageQueue
    /\ sockets' = m.sockets
    /\ wire' = m.wire

\* this.socket?.connected
connected(m) == m.socket # 0 /\ m.sockets[m.socket].st = "connected"

\* The Socket returned by io(): opening, with the handlers of
\* setupSocketEventHandlers attached and the two once() handlers of connect().
\* auto tells that the socket was opened by the 'disconnect' handler and not by a
\* caller of connect() or send().
NewSocket == [st |-> "connecting", onceConnect |-> TRUE,
              onceConnectError |-> TRUE, attempts |-> 0, auto |-> FALSE]

\* connect() would call io()
Opens(m) == ~connected(m) /\ ~m.isConnecting /\ enableWebSocket

\* mutant: connect() does not look at isConnecting
connectNoInFlightGuard(m) ==
    IF connected(m) THEN m
    ELSE IF ~enableWebSocket THEN m
    ELSE [m EXCEPT !.isConnecting = TRUE,
                   !.sockets = Append(@, NewSocket),
                   !.socket = Len(m.sockets) + 1]

connect(m) ==
    IF connected(m) \/ m.isConnecting THEN m
    ELSE IF ~enableWebSocket THEN m
    ELSE [m EXCEPT !.isConnecting = TRUE,
                   !.sockets = Append(@, NewSocket),
                   !.socket = Len(m.sockets) + 1]

\* mutant: the queue is drained from its tail (pop() instead of shift())
RECURSIVE processMessageQueueLifo(_)
processMessageQueueLifo(m) ==
    IF Len(m.messageQueue) > 0 /\ connected(m)
    THEN processMessageQueueLifo(
             [m EXCEPT !.messageQueue = SubSeq(@, 1, Len(@) - 1),
                       !.wire = Append(@, [msg |-> m.messageQueue[Len(m.messageQueue)],
                                           sock |-> m.socket])])
    ELSE m

RECURSIVE processMessageQueue(_)
processMessageQueue(m) ==
    IF Len(m.messageQueue) > 0 /\ connected(m)
    THEN processMessageQueue(
             [m EXCEPT !.messageQueue = Tail(@),
                       !.wire = Append(@, [msg |-> Head(m.messageQueue),
                                           sock |-> m.socket])])
    ELSE m

send(m, msg) ==
    IF connected(m)
    THEN [m EXCEPT !.wire = Append(@, [msg |-> msg, sock |-> m.socket])]
    ELSE LET q == [m EXCEPT !.messageQueue = Append(@, msg)]
         IN  IF ~q.isConnecting THEN connect(q) ELSE q

\* mutant: disconnect() also throws the queued messages away
disconnectClearsQueue(m) ==
    IF m.socket # 0
    THEN [m EXCEPT !.sockets[m.socket].st = "closed",
                   !.socket = 0,
                   !.isConnecting = FALSE,
                   !.messageQueue = <<>>]
    ELSE [m EXCEPT !.isConnecting = FALSE, !.messageQueue = <<>>]

\* mutant: disconnect() forgets the attempt in flight
disconnectKeepsConnecting(m) ==
    IF m.socket # 0
    THEN [m EXCEPT !.sockets[m.socket].st = "closed", !.socket = 0]
    ELSE m

\* socket.disconnect() fires 'disconnect' with reason 'io client disconnect' on a
\* connected socket; the handler of lines 488-494 only logs for that reason.
disconnect(m) ==
    IF m.socket # 0
    THEN [m EXCEPT !.sockets[m.socket].st = "closed",
                   !.socket = 0,
                   !.isConnecting = FALSE]
    ELSE [m EXCEPT !.isConnecting = FALSE]

\* socket.on('connect', ...)
onConnect(m) == [m EXCEPT !.reconnectAttempts = 0]

\* mutant: the once('connect') handler forgets to flush the queue
onceConnectNoFlush(m) == [m EXCEPT !.isConnecting = FALSE, !.reconnectAttempts = 0]

\* socket.once('connect', ...) of connect()
onceConnect(m) ==
    processMessageQueue([m EXCEPT !.isConnecting = FALSE, !.reconnectAttempts = 0])

\* socket.once('connect_error', ...) of connect()
onceConnectError(m) == [m EXCEPT !.isConnecting = FALSE]

\* What the promise returned by connect() holds when connect() returns: true or
\* false on the early returns, pending when a socket was opened.
connectReturns(m) ==
    IF connected(m) \/ m.isConnecting THEN "true"
    ELSE IF ~enableWebSocket THEN "false"
    ELSE "pending"

\* socket.on('disconnect', ...); a socket the handler's connect() opens is marked auto
onDisconnect(m, reason) ==
    IF reason = "io server disconnect"
    THEN LET c == connect(m)
         IN  IF Len(c.sockets) > Len(m.sockets)
             THEN [c EXCEPT !.sockets[Len(c.sockets)].auto = TRUE]
             ELSE c
    ELSE m

SocketIds == 1 .. Len(sockets)

\* a socket that can still deliver events to its handlers
Live(s) == sockets[s].st \in {"connecting", "connected", "reconnecting"}

InitWS ==
    /\ socket = 0
    /\ reconnectAttempts = 0
    /\ isConnecting = FALSE
    /\ messageQueue = <<>>
    /\ sockets = <<>>
    /\ wire = <<>>
    /\ sendCount = 0
    /\ hidden = FALSE
    /\ enableWebSocket \in BOOLEAN
    /\ connectReturn = "none"

\* wsManager.connect() called by a consumer (useWebSocket on mount, a component)
Connect ==
    /\ Opens(M) => Len(sockets) < MaxSockets
    /\ SetM(connect(M))
    /\ connectReturn' = connectReturns(M)
    /\ UNCHANGED <<sendCount, hidden, enableWebSocket, apiVars, storeVars, restVars>>

\* wsManager.disconnect() called by a consumer, or by the beforeunload listener
Disconnect ==
    /\ SetM(disconnect(M))
    /\ connectReturn' = "none"
    /\ UNCHANGED <<sendCount, hidden, enableWebSocket, apiVars, storeVars, restVars>>

\* the visibilitychange listener
VisibilityChange ==
    /\ hidden' = ~hidden
    /\ IF hidden'
       THEN SetM(disconnect(M))
       ELSE /\ Opens(M) => Len(sockets) < MaxSockets
            /\ SetM(connect(M))
    /\ connectReturn' = "none"
    /\ UNCHANGED <<sendCount, enableWebSocket, apiVars, storeVars, restVars>>

\* wsManager.send(event, data); the k-th call sends message k
Send ==
    /\ sendCount < MaxMsgs
    /\ Opens(M) => Len(sockets) < MaxSockets
    /\ sendCount' = sendCount + 1
    /\ SetM(send(M, sendCount + 1))
    /\ connectReturn' = "none"
    /\ UNCHANGED <<hidden, enableWebSocket, apiVars, storeVars, restVars>>

\* the transport of socket s opens: 'connect' fires, first the on() handler,
\* then the once() handler if it has not fired yet
SocketConnect(s) ==
    /\ sockets[s].st \in {"connecting", "reconnecting"}
    /\ LET m1 == [M EXCEPT !.sockets[s].st = "connected", !.sockets[s].attempts = 0]
           m2 == onConnect(m1)
           m3 == IF sockets[s].onceConnect
                 THEN onceConnect([m2 EXCEPT !.sockets[s].onceConnect = FALSE])
                 ELSE m2
       IN  SetM(m3)
    /\ connectReturn' = "none"
    /\ UNCHANGED <<sendCount, hidden, enableWebSocket, apiVars, storeVars, restVars>>

\* an open attempt of socket s fails: 'connect_error' fires and socket.io
\* schedules the next automatic attempt, until reconnectionAttempts have failed
SocketConnectError(s) ==
    /\ sockets[s].st \in {"connecting", "reconnecting"}
    /\ LET failed == IF sockets[s].st = "connecting" THEN 0 ELSE sockets[s].attempts + 1
           m1 == IF failed >= maxReconnectAttempts
                 THEN [M EXCEPT !.sockets[s].st = "closed", !.sockets[s].attempts = 0]
                 ELSE [M EXCEPT !.sockets[s].st = "reconnecting",
                                !.sockets[s].attempts = failed]
           m2 == IF sockets[s].onceConnectError
                 THEN onceConnectError([m1 EXCEPT !.sockets[s].onceConnectError = FALSE])
                 ELSE m1
       IN  SetM(m2)
    /\ connectReturn' = "none"
    /\ UNCHANGED <<sendCount, hidden, enableWebSocket, apiVars, storeVars, restVars>>

\* the transport of a connected socket is lost: 'disconnect' fires with reason
\* 'transport close' / 'ping timeout' and socket.io reconnects by itself
TransportLoss(s) ==
    /\ sockets[s].st = "connected"
    /\ LET m1 == [M EXCEPT !.sockets[s].st = "reconnecting", !.sockets[s].attempts = 0]
       IN  SetM(onDisconnect(m1, "transport close"))
    /\ connectReturn' = "none"
    /\ UNCHANGED <<sendCount, hidden, enableWebSocket, apiVars, storeVars, restVars>>

\* the server closes a connected socket: 'disconnect' fires with reason
\* 'io server disconnect' and socket.io does not reconnect by itself
ServerDisconnect(s) ==
    /\ sockets[s].st = "connected"
    /\ LET m1 == [M EXCEPT !.sockets[s].st = "closed"]
       IN  /\ Opens(m1) => Len(sockets) < MaxSockets
           /\ SetM(onDisconnect(m1, "io server disconnect"))
    /\ connectReturn' = "none"
    /\ UNCHANGED <<sendCount, hidden, enableWebSocket, apiVars, storeVars, restVars>>

NextWS ==
    \/ Connect
    \/ Disconnect
    \/ VisibilityChange
    \/ Send
    \/ \E s \in SocketIds : SocketConnect(s)
    \/ \E s \in SocketIds : SocketConnectError(s)
    \/ \E s \in SocketIds : TransportLoss(s)
    \/ \E s \in SocketIds : ServerDisconnect(s)

\* ================================================================== ApiClient

Undefined == "undefined"

\* JavaScript values that isRetryableError receives: a number, a string or undefined
Num(n) == [t |-> "number", n |-> n, s |-> ""]
Str(s) == [t |-> "string", n |-> 0, s |-> s]
Undef == [t |-> "undefined", n |-> 0, s |-> ""]

\* this.retryConfig as the constructor sets it
retryConfig ==
    [maxAttempts |-> RetryAttempts,
     baseDelay |-> RetryDelay,
     maxDelay |-> MaxDelay,
     backoffFactor |-> BackoffFactor,
     retryableStatuses |-> {408, 429, 500, 502, 503, 504},
     retryableCodes |-> {"ECONNABORTED", "NETWORK_ERROR"}]

\* ---- what one this.client.request(config) can produce before the interceptors
Statuses == {400, 401, 403, 404, 408, 409, 422, 429, 500, 501, 502, 503, 504}

\* a 2xx response
OkResponse == [kind |-> "ok", status |-> 200, data |-> "body", code |-> Undefined,
               message |-> Undefined]

\* an AxiosError with error.response: the server answered with an error status;
\* data is the body: absent, or an object with or without a message field
ResponseErrors ==
    [kind : {"response"}, status : Statuses, data : {Undefined, "message", "other"},
     code : {"ERR_BAD_RESPONSE"}, message : {"Request failed"}]

\* an AxiosError with error.request and no error.response: timeout, connection
\* refused, connection aborted
RequestErrors ==
    [kind : {"request"}, status : {0}, data : {Undefined},
     code : {"ECONNABORTED", "ERR_NETWORK"}, message : {"Network Error"}]

\* an error with neither: thrown before the request left
SetupErrors ==
    [kind : {"setup"}, status : {0}, data : {Undefined},
     code : {Undefined, "ECONNABORTED", "NETWORK_ERROR", "ERR_BAD_OPTION"},
     message : {Undefined, "Invalid option"}]

RawErrors == ResponseErrors \cup RequestErrors \cup SetupErrors
RawOutcomes == {OkResponse} \cup RawErrors

\* ---- message texts of ApiError; arg carries the status interpolated into the text
Text(s) == [text |-> s, arg |-> 0]
HttpText(status) == [text |-> "HTTP ${status} Error", arg |-> status]

\* mutant: 429 is missing from retryableErrors
isRetryableErrorNo429(error) ==
    IF error.t = "undefined" \/ error = Num(0) \/ error = Str("") THEN FALSE
    ELSE IF error.t = "number" THEN error.n \in (retryConfig.retryableStatuses \ {429})
    ELSE error.s \in retryConfig.retryableCodes

\* mutant: every 4xx status is taken for retryable
isRetryableErrorAll4xx(error) ==
    IF error.t = "undefined" \/ error = Num(0) \/ error = Str("") THEN FALSE
    ELSE IF error.t = "number"
         THEN error.n \in retryConfig.retryableStatuses \/ (error.n >= 400 /\ error.n < 500)
    ELSE error.s \in retryConfig.retryableCodes

isRetryableError(error) ==
    IF error.t = "undefined" \/ error = Num(0) \/ error = Str("") THEN FALSE
    ELSE IF error.t = "number" THEN error.n \in retryConfig.retryableStatuses
    ELSE error.s \in retryConfig.retryableCodes

handleError(error) ==
    IF error.kind = "response"
    THEN [message |-> IF error.data = "message" THEN Text("data.message")
                      ELSE HttpText(error.status),
          code |-> Undefined,
          status |-> error.status,
          details |-> error.data,
          retryable |-> isRetryableError(Num(error.status))]
    ELSE IF error.kind = "request"
    THEN [message |-> Text("Network error - no response received"),
          code |-> "NETWORK_ERROR",
          status |-> 0,
          details |-> Undefined,
          retryable |-> TRUE]
    ELSE [message |-> IF error.message = Undefined THEN Text("Unknown error occurred")
                      ELSE Text(error.message),
          code |-> error.code,
          status |-> 0,
          details |-> Undefined,
          retryable |-> isRetryableError(IF error.code = Undefined THEN Undef
                                         ELSE Str(error.code))]

\* mutant: the response interceptor lets the transport's error through
responseRejectedRaw(error) == error

\* the rejected branch of the response interceptor: what the await in request()
\* throws for a failed attempt
responseRejected(error) == handleError(error)

RECURSIVE Pow(_, _)
Pow(b, e) == IF e = 0 THEN 1 ELSE b * Pow(b, e - 1)

Min(a, b) == IF a < b THEN a ELSE b

\* mutant: the delay is not capped
calculateDelayNoCap(n) ==
    retryConfig.baseDelay * Pow(retryConfig.backoffFactor, n - 1)

\* mutant: the exponent is the attempt number, not attempt - 1
calculateDelayOffByOne(n) ==
    Min(retryConfig.baseDelay * Pow(retryConfig.backoffFactor, n),
        retryConfig.maxDelay)

calculateDelay(n) ==
    Min(retryConfig.baseDelay * Pow(retryConfig.backoffFactor, n - 1),
        retryConfig.maxDelay)

\* customRetryConfig: 0 stands for a field that is not given
CustomConfigs == [maxAttempts : 0 .. MaxCustomAttempts, baseDelay : {0, 250}]

\* { ...this.retryConfig, ...customRetryConfig }
merged(custom) ==
    [retryConfig EXCEPT
        !.maxAttempts = IF custom.maxAttempts = 0 THEN @ ELSE custom.maxAttempts,
        !.baseDelay = IF custom.baseDelay = 0 THEN @ ELSE custom.baseDelay]

\* error.retryable read from whatever was thrown (undefined is falsy)
Retryable(e) == IF "retryable" \in DOMAIN e THEN e.retryable ELSE FALSE

UnknownError ==
    [message |-> Text("Unknown error"), code |-> Undefined, status |-> 0,
     details |-> Undefined, retryable |-> FALSE]

NoOutcome == [how |-> "pending", value |-> Undefined]

InitRequest ==
    /\ pc = "idle"
    /\ customRetryConfig = [maxAttempts |-> 0, baseDelay |-> 0]
    /\ attempt = 0
    /\ attemptsMade = 0
    /\ lastRaw = OkResponse
    /\ lastError = UnknownError
    /\ only503 = TRUE
    /\ sleeps = <<>>
    /\ outcome = NoOutcome

\* the loop condition of line 137
loopCondition(n, max) == n <= max

\* mutant: a failed attempt is retried whatever its error
shouldBreakIgnoresRetryable(n, max, err) == n = max

\* the break condition of line 145
shouldBreak(n, max, err) == n = max \/ ~Retryable(err)

\* request(config, customRetryConfig) is called: lines 131-137
Request(custom) ==
    /\ pc = "idle"
    /\ customRetryConfig' = custom
    /\ attempt' = 1
    /\ lastError' = UnknownError
    /\ IF loopCondition(1, merged(custom).maxAttempts)
       THEN pc' = "attempting" /\ outcome' = outcome
       ELSE pc' = "thrown" /\ outcome' = [how |-> "thrown", value |-> UnknownError]
    /\ UNCHANGED <<attemptsMade, lastRaw, only503, sleeps, wsVars, storeVars, restVars>>

\* one pass of the loop body, lines 138-153: the attempt settles with raw
Attempt(raw) ==
    /\ pc = "attempting"
    /\ attemptsMade' = attemptsMade + 1
    /\ lastRaw' = raw
    /\ IF raw.kind = "ok"
       THEN /\ pc' = "returned"
            /\ outcome' = [how |-> "returned", value |-> raw]
            /\ UNCHANGED <<lastError, only503, sleeps>>
       ELSE LET err == responseRejected(raw) IN
            /\ lastError' = err
            /\ only503' = (only503 /\ raw.kind = "response" /\ raw.status = 503)
            /\ IF shouldBreak(attempt, merged(customRetryConfig).maxAttempts, err)
               THEN /\ pc' = "thrown"
                    /\ outcome' = [how |-> "thrown", value |-> err]
                    /\ sleeps' = sleeps
               ELSE /\ pc' = "sleeping"
                    /\ sleeps' = Append(sleeps, calculateDelay(attempt))
                    /\ outcome' = outcome
    /\ UNCHANGED <<customRetryConfig, attempt, wsVars, storeVars, restVars>>

\* the sleep of line 153 ends: attempt++ and the loop condition of line 137
Wake ==
    /\ pc = "sleeping"
    /\ attempt' = attempt + 1
    /\ IF loopCondition(attempt + 1, merged(customRetryConfig).maxAttempts)
       THEN pc' = "attempting" /\ outcome' = outcome
       ELSE pc' = "thrown" /\ outcome' = [how |-> "thrown", value |-> lastError]
    /\ UNCHANGED <<customRetryConfig, attemptsMade, lastRaw, lastError, only503, sleeps, wsVars, storeVars, restVars>>

NextRequest ==
    \/ \E custom \in CustomConfigs : Request(custom)
    \/ \E raw \in RawOutcomes : Attempt(raw)
    \/ Wake

\* ---- healthCheck

\* the axios config healthCheck() hands to get(): the retry override is one of
\* its properties
healthCheckConfig ==
    [timeout |-> 5000, customRetryConfig |-> [maxAttempts |-> 2, baseDelay |-> 1000]]

\* get(url, config) calls this.request({ ...config, method: 'GET', url }) with
\* one argument: the customRetryConfig parameter of request() is undefined,
\* whatever the config holds
get(config) == [maxAttempts |-> 0, baseDelay |-> 0]

\* what healthCheck() returns once its request has settled: true from the try
\* block, false from the catch block
healthCheck(settled) == settled.how = "returned"

\* apiClient.healthCheck() is called, no other request being in progress
HealthCheck ==
    /\ pc \in {"idle", "returned", "thrown"}
    /\ customRetryConfig' = get(healthCheckConfig)
    /\ attempt' = 1
    /\ attemptsMade' = 0
    /\ lastError' = UnknownError
    /\ only503' = TRUE
    /\ sleeps' = <<>>
    /\ outcome' = NoOutcome
    /\ pc' = IF loopCondition(1, merged(get(healthCheckConfig)).maxAttempts)
             THEN "attempting" ELSE "thrown"
    /\ UNCHANGED <<lastRaw, wsVars, storeVars, restVars>>

NextHealthCheck ==
    \/ HealthCheck
    \/ \E raw \in RawOutcomes : Attempt(raw)
    \/ Wake

\* ============================================================== useAgentStore

\* Identifiers are `${prefix}${Date.now()}` on the client; a push event carries the
\* server's own identifiers.  NoId stands for null / undefined.
Id(prefix, n) == [prefix |-> prefix, n |-> n]
NoId == Id("null", 0)

\* state.currentTask
TaskText(type) == [text |-> "Running ${type} workflow", arg |-> type]
NoTask == [text |-> "null", arg |-> ""]

\* the store's data as one record, so that the actions are functions on it
S == [agents |-> agents, workflows |-> workflows, activeWorkflow |-> activeWorkflow,
      pendingApprovals |-> pendingApprovals, isExecuting |-> isExecuting,
      currentTask |-> currentTask, activityLog |-> activityLog]

SetS(s) ==
    /\ agents' = s.agents
    /\ workflows' = s.workflows
    /\ activeWorkflow' = s.activeWorkflow
    /\ pendingApprovals' = s.pendingApprovals
    /\ isExecuting' = s.isExecuting
    /\ currentTask' = s.currentTask
    /\ activityLog' = s.activityLog

\* the catalog of agents, in the order of initialAgents
AgentCatalog == <<Id("repository_analyzer", 0), Id("requirements_extractor", 0),
                  Id("architecture_designer", 0), Id("implementation_planner", 0),
                  Id("validator", 0)>>

\* { id, name, status: 'idle' }: currentTask, error and progress are absent; the
\* name goes with the id and is never written
initialAgents ==
    [i \in DOMAIN AgentCatalog |->
        [id |-> AgentCatalog[i], status |-> "idle", currentTask |-> Undefined,
         error |-> Undefined, progress |-> Undef]]

\* mutant: an identifier that matches no agent registers a new one
updateAgentStatusUpsert(s, agentId, status, task, error) ==
    LET new == [id |-> agentId, status |-> status, currentTask |-> task,
                error |-> error,
                progress |-> IF status = "completed" THEN Num(100) ELSE Num(0)]
        upd(agent) == IF agent.id = agentId THEN new ELSE agent
    IN  IF \E i \in DOMAIN s.agents : s.agents[i].id = agentId
        THEN [s EXCEPT !.agents = [i \in DOMAIN @ |-> upd(@[i])]]
        ELSE [s EXCEPT !.agents = Append(@, new)]

\* mutant: the progress is left as it was
updateAgentStatusKeepsProgress(s, agentId, status, task, error) ==
    LET upd(agent) == IF agent.id = agentId
                      THEN [agent EXCEPT !.status = status, !.currentTask = task,
                                         !.error = error]
                      ELSE agent
    IN  [s EXCEPT !.agents = [i \in DOMAIN @ |-> upd(@[i])]]

updateAgentStatus(s, agentId, status, task, error) ==
    LET upd(agent) == IF agent.id = agentId
                      THEN [agent EXCEPT !.status = status, !.currentTask = task,
                                         !.error = error,
                                         !.progress = IF status = "completed"
                                                      THEN Num(100) ELSE Num(0)]
                      ELSE agent
    IN  [s EXCEPT !.agents = [i \in DOMAIN @ |-> upd(@[i])]]

\* progress is a number here; the push-event handler calls this only for one
updateAgentProgress(s, agentId, progress) ==
    LET upd(agent) == IF agent.id = agentId
                      THEN [agent EXCEPT !.progress = progress]
                      ELSE agent
    IN  [s EXCEPT !.agents = [i \in DOMAIN @ |-> upd(@[i])]]

resetAgents(s) == [s EXCEPT !.agents = initialAgents]

\* activeWorkflow: null
NoWorkflow ==
    [id |-> NoId, type |-> "", status |-> "pending", startTime |-> 0, endTime |-> 0,
     steps |-> <<>>, currentStep |-> Undefined, results |-> Undefined, error |-> Undefined]

\* steps[0]
First(steps) == IF Len(steps) > 0 THEN steps[1] ELSE Undefined

startWorkflow(s, t, type, steps) ==
    LET workflow == [id |-> Id("workflow_", t), type |-> type, status |-> "running",
                     startTime |-> t, endTime |-> 0, steps |-> steps,
                     currentStep |-> First(steps), results |-> Undefined,
                     error |-> Undefined]
    IN  [s EXCEPT !.workflows = Append(@, workflow),
                  !.activeWorkflow = workflow,
                  !.isExecuting = TRUE,
                  !.currentTask = TaskText(type)]

updateWorkflowStatus(s, t, workflowId, status, currentStep, error) ==
    LET upd(w) == IF w.id = workflowId
                  THEN [w EXCEPT !.status = status, !.currentStep = currentStep,
                                 !.error = error,
                                 !.endTime = IF status \in {"completed", "error"}
                                             THEN t ELSE 0]
                  ELSE w
    IN  [s EXCEPT !.workflows = [i \in DOMAIN @ |-> upd(@[i])],
                  !.activeWorkflow =
                      IF @ # NoWorkflow /\ @.id = workflowId
                      THEN [@ EXCEPT !.status = status, !.currentStep = currentStep,
                                     !.error = error]
                      ELSE @]

\* mutant: completeWorkflow leaves the executing flag and the task alone
completeWorkflowKeepsExecuting(s, t, workflowId, results) ==
    LET upd(w) == IF w.id = workflowId
                  THEN [w EXCEPT !.status = "completed", !.results = results,
                                 !.endTime = t]
                  ELSE w
    IN  [s EXCEPT !.workflows = [i \in DOMAIN @ |-> upd(@[i])]]

completeWorkflow(s, t, workflowId, results) ==
    LET upd(w) == IF w.id = workflowId
                  THEN [w EXCEPT !.status = "completed", !.results = results,
                                 !.endTime = t]
                  ELSE w
    IN  [s EXCEPT !.workflows = [i \in DOMAIN @ |-> upd(@[i])],
                  !.activeWorkflow =
                      IF @ # NoWorkflow /\ @.id = workflowId
                      THEN [@ EXCEPT !.status = "completed", !.results = results]
                      ELSE @,
                  !.isExecuting = FALSE,
                  !.currentTask = NoTask]

clearWorkflows(s) == [s EXCEPT !.workflows = <<>>, !.activeWorkflow = NoWorkflow]

\* request is what the caller passes: the fields other than id, timestamp, status.
\* Its field origin is not a field of the code's record: it remembers the
\* identifier under which the server announced the request (NoId for a local call).
addApprovalRequest(s, t, request) ==
    LET approval == [id |-> Id("approval_", t), request |-> request,
                     timestamp |-> t, status |-> "pending"]
    IN  [s EXCEPT !.pendingApprovals = Append(@, approval)]

\* mutant: an identifier that matches nothing creates a resolved record
resolveApprovalRequestUpsert(s, requestId, approved) ==
    LET status == IF approved THEN "approved" ELSE "rejected"
        upd(req) == IF req.id = requestId THEN [req EXCEPT !.status = status] ELSE req
    IN  IF \E i \in DOMAIN s.pendingApprovals : s.pendingApprovals[i].id = requestId
        THEN [s EXCEPT !.pendingApprovals = [i \in DOMAIN @ |-> upd(@[i])]]
        ELSE [s EXCEPT !.pendingApprovals =
                  Append(@, [id |-> requestId,
                             request |-> [riskLevel |-> "critical", origin |-> NoId],
                             timestamp |-> 0, status |-> status])]

resolveApprovalRequest(s, requestId, approved) ==
    LET upd(req) == IF req.id = requestId
                    THEN [req EXCEPT !.status = IF approved THEN "approved"
                                                ELSE "rejected"]
                    ELSE req
    IN  [s EXCEPT !.pendingApprovals = [i \in DOMAIN @ |-> upd(@[i])]]

clearApprovals(s) == [s EXCEPT !.pendingApprovals = <<>>]

\* details?: the store keeps the object and never reads it, so it is modelled by
\* its shape
NoDetails == Undefined

\* mutant: slice keeps one entry more than asked
SliceOneMore(seq, n) == SubSeq(seq, 1, IF Len(seq) < n + 1 THEN Len(seq) ELSE n + 1)

\* state.activityLog.slice(0, 99)
Slice(seq, n) == SubSeq(seq, 1, IF Len(seq) < n THEN Len(seq) ELSE n)

\* seq is not a field of the code's entry: it numbers the addActivity calls
addActivity(s, t, seq, agentId, action, details) ==
    LET activity == [id |-> Id("activity_", t), agentId |-> agentId, action |-> action,
                     timestamp |-> t, details |-> details, seq |-> seq]
    IN  [s EXCEPT !.activityLog = <<activity>> \o Slice(@, ActivityKept)]

clearActivity(s) == [s EXCEPT !.activityLog = <<>>]

\* ---- WebSocketManager's event emitter for the React components

\* the events on()/off() are used with
Events == {"agent_status_update", "workflow_update", "system_notification",
           "approval_request", "approval_response", "message", "connect", "disconnect"}

\* the callbacks components register: one that returns, one that throws, and one
\* that unregisters itself when it is called
Callbacks == {"render", "faulty", "once"}

\* the registry and the record of the latest dispatch
L == [eventListeners |-> eventListeners, delivered |-> delivered, escaped |-> escaped]

SetL(l) ==
    /\ eventListeners' = l.eventListeners
    /\ delivered' = l.delivered
    /\ escaped' = l.escaped

\* a key the Map does not have and a key with an empty array behave alike in
\* on(), off() and emit(): both are the empty sequence here
on(l, event, callback) == [l EXCEPT !.eventListeners[event] = Append(@, callback)]

\* listeners.indexOf(callback), counted from 1; 0 when absent
IndexOf(seq, x) ==
    IF \E i \in DOMAIN seq : seq[i] = x
    THEN CHOOSE i \in DOMAIN seq : seq[i] = x /\ \A j \in 1 .. i - 1 : seq[j] # x
    ELSE 0

\* listeners.splice(index, 1)
Splice(seq, index) == SubSeq(seq, 1, index - 1) \o SubSeq(seq, index + 1, Len(seq))

off(l, event, callback) ==
    IF IndexOf(l.eventListeners[event], callback) > 0
    THEN [l EXCEPT !.eventListeners[event] = Splice(@, IndexOf(@, callback))]
    ELSE l

\* what the body of a callback does when it is called
Run(l, event, callback) ==
    IF callback = "once" THEN off(l, event, callback) ELSE l

Throws(callback) == callback = "faulty"

\* mutant: the callback is called without try / catch
callNoCatch(l, event, callback) ==
    LET l1 == Run([l EXCEPT !.delivered = Append(@, callback)], event, callback)
    IN  IF Throws(callback) THEN [l1 EXCEPT !.escaped = TRUE] ELSE l1

\* try { callback(data) } catch (error) { console.error(...) }
call(l, event, callback) ==
    Run([l EXCEPT !.delivered = Append(@, callback)], event, callback)

\* listeners.forEach(...): index i runs while it is below the length the array had
\* when forEach began and the array still has an element there; an exception
\* that leaves a callback ends the loop
RECURSIVE forEach(_, _, _, _)
forEach(l, event, i, len) ==
    IF l.escaped \/ i > len \/ i > Len(l.eventListeners[event]) THEN l
    ELSE forEach(call(l, event, l.eventListeners[event][i]), event, i + 1, len)

emit(l, event) ==
    forEach([l EXCEPT !.delivered = <<>>, !.escaped = FALSE], event, 1,
            Len(l.eventListeners[event]))

InitListeners ==
    /\ eventListeners = [e \in Events |-> <<>>]
    /\ delivered = <<>>
    /\ escaped = FALSE

\* ---- the push-event handlers of WebSocketManager: each writes to the store and
\* then emits the event to the registered listeners

\* data: [workflowId, status, currentStep, error, results]; results is undefined,
\* a truthy value, or a defined falsy one
handleWorkflowUpdate(s, t, seq, data) ==
    LET s1 == IF data.status = "completed" /\ data.results = "ok"
              THEN completeWorkflow(s, t, data.workflowId, data.results)
              ELSE updateWorkflowStatus(s, t, data.workflowId, data.status,
                                        data.currentStep, data.error)
    IN  addActivity(s1, t, seq, "workflow", "Workflow ${data.status}",
                    "{workflowId, currentStep, step, totalSteps}")

\* mutant: the progress of the event is written before the status
handleAgentStatusUpdateProgressFirst(s, t, seq, data) ==
    LET s1 == IF data.progress # Undef
              THEN updateAgentProgress(s, data.agentId, data.progress)
              ELSE s
        s2 == updateAgentStatus(s1, data.agentId, data.status, data.task, data.error)
    IN  addActivity(s2, t, seq, data.agentId.prefix, "Status changed to ${data.status}",
                    "{task, error, progress}")

\* data: [agentId, status, task, error, progress]; progress is Undef when absent
handleAgentStatusUpdate(s, t, seq, data) ==
    LET s1 == updateAgentStatus(s, data.agentId, data.status, data.task, data.error)
        s2 == IF data.progress # Undef
              THEN updateAgentProgress(s1, data.agentId, data.progress)
              ELSE s1
    IN  addActivity(s2, t, seq, data.agentId.prefix, "Status changed to ${data.status}",
                    "{task, error, progress}")

\* data: [request_id, risk_level]
handleApprovalRequest(s, t, data) ==
    addApprovalRequest(s, t, [riskLevel |-> data.risk_level, origin |-> data.request_id])

\* data: [request_id, approved]
handleApprovalResponse(s, data) ==
    resolveApprovalRequest(s, data.request_id, data.approved)

\* what lastOp records: the action or event, the identifier it names, and its
\* argument as text
Op(op, id, arg) == [op |-> op, id |-> id, arg |-> arg]
Bool(b) == IF b THEN "true" ELSE "false"

InitStore ==
    /\ now = 1
    /\ agents = initialAgents
    /\ workflows = <<>>
    /\ activeWorkflow = NoWorkflow
    /\ pendingApprovals = <<>>
    /\ isExecuting = FALSE
    /\ currentTask = NoTask
    /\ activityLog = <<>>
    /\ activityCount = 0
    /\ lastOp = Op("none", NoId, "")

\* time passes between two events of the UI event loop
Tick ==
    /\ now < MaxClock
    /\ now' = now + 1
    /\ lastOp' = Op("tick", NoId, "")
    /\ UNCHANGED <<agents, workflows, activeWorkflow, pendingApprovals, isExecuting,
                   currentTask, activityLog, activityCount, wsVars, apiVars, restVars>>

\* ---- approvals

\* the payload of a request is copied into the store and read by no store
\* action, so one risk level stands for all of them
RiskLevels == {"critical"}

\* identifiers the backend gives to approval requests
ServerIds == {Id("req_", n) : n \in 1 .. MaxApprovals}

\* identifiers addApprovalRequest can have generated
LocalApprovalIds == {Id("approval_", t) : t \in 1 .. MaxClock}

\* identifiers a caller or the backend may name in a resolution
NamedIds == ServerIds \cup LocalApprovalIds

\* the store action called from application code
AddApprovalRequest(risk) ==
    /\ Len(pendingApprovals) < MaxApprovals
    /\ SetS(addApprovalRequest(S, now, [riskLevel |-> risk, origin |-> NoId]))
    /\ lastOp' = Op("addApprovalRequest", Id("approval_", now), risk)
    /\ UNCHANGED <<now, activityCount, wsVars, apiVars, restVars>>

ResolveApprovalRequest(requestId, approved) ==
    /\ SetS(resolveApprovalRequest(S, requestId, approved))
    /\ lastOp' = Op("resolveApprovalRequest", requestId, Bool(approved))
    /\ UNCHANGED <<now, activityCount, wsVars, apiVars, restVars>>

ClearApprovals ==
    /\ SetS(clearApprovals(S))
    /\ lastOp' = Op("clearApprovals", NoId, "")
    /\ UNCHANGED <<now, activityCount, wsVars, apiVars, restVars>>

\* push event 'approval_request'; the backend names each request it announces
\* with an identifier of its own that it has not used for a stored request
ApprovalRequestEvent(data) ==
    /\ Len(pendingApprovals) < MaxApprovals
    /\ \A i \in DOMAIN pendingApprovals :
           pendingApprovals[i].request.origin # data.request_id
    /\ SetS(handleApprovalRequest(S, now, data))
    /\ SetL(emit(L, "approval_request"))
    /\ lastOp' = Op("approval_request", data.request_id, data.risk_level)
    /\ UNCHANGED <<now, activityCount, wsVars, apiVars, pageVars>>

\* push event 'approval_response'
ApprovalResponseEvent(data) ==
    /\ SetS(handleApprovalResponse(S, data))
    /\ SetL(emit(L, "approval_response"))
    /\ lastOp' = Op("approval_response", data.request_id, Bool(data.approved))
    /\ UNCHANGED <<now, activityCount, wsVars, apiVars, pageVars>>

NextApproval ==
    \/ Tick
    \/ \E risk \in RiskLevels : AddApprovalRequest(risk)
    \/ \E id \in NamedIds, approved \in BOOLEAN : ResolveApprovalRequest(id, approved)
    \/ ClearApprovals
    \/ \E id \in ServerIds, risk \in RiskLevels :
           ApprovalRequestEvent([request_id |-> id, risk_level |-> risk])
    \/ \E id \in NamedIds, approved \in BOOLEAN :
           ApprovalResponseEvent([request_id |-> id, approved |-> approved])

\* ---- workflows

WorkflowTypes == {"full_analysis"}

\* the steps lists a caller passes: none, or two steps
StepLists == {<<>>, <<"analyze", "build">>}

WorkflowStatuses == {"pending", "running", "completed", "error"}

\* the currentStep a caller or the backend passes: absent, or a step
StepNames == {Undefined, "build"}

\* the identifiers a caller or the backend names: those of the stored workflows,
\* and one that startWorkflow cannot have generated
WorkflowIds == {workflows[i].id : i \in DOMAIN workflows} \cup {Id("workflow_", 0)}

\* the results a workflow_update carries: absent, or an object; the handler reads
\* them only when the status is completed
ResultsOf(status) == IF status = "completed" THEN {Undefined, "ok"} ELSE {Undefined}

\* the error text that goes with a status
ErrorOf(status) == IF status = "error" THEN "failed" ELSE Undefined

StartWorkflow(type, steps) ==
    /\ Len(workflows) < MaxWorkflows
    /\ SetS(startWorkflow(S, now, type, steps))
    /\ lastOp' = Op("startWorkflow", Id("workflow_", now), type)
    /\ UNCHANGED <<now, activityCount, wsVars, apiVars, restVars>>

UpdateWorkflowStatus(workflowId, status, currentStep) ==
    /\ SetS(updateWorkflowStatus(S, now, workflowId, status, currentStep, ErrorOf(status)))
    /\ lastOp' = Op("updateWorkflowStatus", workflowId, "")
    /\ UNCHANGED <<now, activityCount, wsVars, apiVars, restVars>>

CompleteWorkflow(workflowId, results) ==
    /\ SetS(completeWorkflow(S, now, workflowId, results))
    /\ lastOp' = Op("completeWorkflow", workflowId, results)
    /\ UNCHANGED <<now, activityCount, wsVars, apiVars, restVars>>

ClearWorkflows ==
    /\ SetS(clearWorkflows(S))
    /\ lastOp' = Op("clearWorkflows", NoId, "")
    /\ UNCHANGED <<now, activityCount, wsVars, apiVars, restVars>>

\* push event 'workflow_update'
WorkflowUpdateEvent(data) ==
    /\ activityCount < MaxEvents
    /\ activityCount' = activityCount + 1
    /\ SetS(handleWorkflowUpdate(S, now, activityCount + 1, data))
    /\ SetL(emit(L, "workflow_update"))
    /\ lastOp' = Op("workflow_update", data.workflowId, "")
    /\ UNCHANGED <<now, wsVars, apiVars, pageVars>>

\* the store actions, called from application code
NextWorkflow ==
    \/ Tick
    \/ \E type \in WorkflowTypes, steps \in StepLists : StartWorkflow(type, steps)
    \/ \E id \in WorkflowIds, status \in WorkflowStatuses, step \in StepNames :
           UpdateWorkflowStatus(id, status, step)
    \/ \E id \in WorkflowIds : CompleteWorkflow(id, "ok")
    \/ ClearWorkflows

\* workflows started locally and driven by the backend's push events
NextWorkflowEvents ==
    \/ Tick
    \/ \E type \in WorkflowTypes, steps \in StepLists : StartWorkflow(type, steps)
    \/ \E id \in WorkflowIds, status \in WorkflowStatuses, step \in StepNames :
       \E results \in ResultsOf(status) :
           WorkflowUpdateEvent([workflowId |-> id, status |-> status,
                                currentStep |-> step, error |-> ErrorOf(status),
                                results |-> results])

\* ---- agents

AgentStatuses == {"idle", "running", "completed", "error"}

\* the agents a caller or the backend names: two of the catalog, which the code
\* treats all alike, and one that is not in it
NamedAgentIds == {AgentCatalog[1], AgentCatalog[5], Id("unknown_agent", 0)}

\* the task text that goes with a status
TaskOf(status) == IF status = "running" THEN "analyze repository" ELSE Undefined

\* the progress a caller or the backend reports
ProgressValues == {Num(50)}

UpdateAgentStatus(agentId, status) ==
    /\ SetS(updateAgentStatus(S, agentId, status, TaskOf(status), ErrorOf(status)))
    /\ lastOp' = Op("updateAgentStatus", agentId, status)
    /\ UNCHANGED <<now, activityCount, wsVars, apiVars, restVars>>

UpdateAgentProgress(agentId, progress) ==
    /\ SetS(updateAgentProgress(S, agentId, progress))
    /\ lastOp' = Op("updateAgentProgress", agentId, "")
    /\ UNCHANGED <<now, activityCount, wsVars, apiVars, restVars>>

ResetAgents ==
    /\ SetS(resetAgents(S))
    /\ lastOp' = Op("resetAgents", NoId, "")
    /\ UNCHANGED <<now, activityCount, wsVars, apiVars, restVars>>

\* push event 'agent_status_update'
AgentStatusEvent(data) ==
    /\ activityCount < MaxEvents
    /\ activityCount' = activityCount + 1
    /\ SetS(handleAgentStatusUpdate(S, now, activityCount + 1, data))
    /\ SetL(emit(L, "agent_status_update"))
    /\ lastOp' = Op("agent_status_update", data.agentId, data.status)
    /\ UNCHANGED <<now, wsVars, apiVars, pageVars>>

\* the agent_status_update payloads the server sends
AgentStatusUpdates ==
    { [agentId |-> id, status |-> status, task |-> TaskOf(status),
       error |-> ErrorOf(status), progress |-> progress] :
          id \in NamedAgentIds, status \in AgentStatuses,
          progress \in ProgressValues \cup {Undef} }

\* the agents slice, with the push event that writes to it, next to a workflow
NextAgents ==
    \/ \E id \in NamedAgentIds, status \in AgentStatuses : UpdateAgentStatus(id, status)
    \/ \E id \in NamedAgentIds, progress \in ProgressValues :
           UpdateAgentProgress(id, progress)
    \/ ResetAgents
    \/ \E data \in AgentStatusUpdates : AgentStatusEvent(data)
    \/ \E type \in WorkflowTypes, steps \in StepLists : StartWorkflow(type, steps)

\* ---- listeners

\* the events the components listen to
ListenedEvents == {"agent_status_update", "message"}

\* the number of registrations, over all events
Registrations == Len(eventListeners["agent_status_update"]) + Len(eventListeners["message"])

\* wsManager.on(event, callback) called by a component
On(event, callback) ==
    /\ Registrations < MaxListeners
    /\ SetL(on(L, event, callback))
    /\ lastOp' = Op("on", Id(callback, 0), event)
    /\ UNCHANGED <<now, agents, workflows, activeWorkflow, pendingApprovals, isExecuting,
                   currentTask, activityLog, activityCount, wsVars, apiVars, pageVars>>

\* wsManager.off(event, callback) called by a component
Off(event, callback) ==
    /\ SetL(off(L, event, callback))
    /\ lastOp' = Op("off", Id(callback, 0), event)
    /\ UNCHANGED <<now, agents, workflows, activeWorkflow, pendingApprovals, isExecuting,
                   currentTask, activityLog, activityCount, wsVars, apiVars, pageVars>>

\* push event 'message': handleMessage logs it and emits it
MessageEvent ==
    /\ SetL(emit(L, "message"))
    /\ lastOp' = Op("message", NoId, "")
    /\ UNCHANGED <<now, agents, workflows, activeWorkflow, pendingApprovals, isExecuting,
                   currentTask, activityLog, activityCount, wsVars, apiVars, pageVars>>

\* components register and unregister while the backend pushes events
NextListeners ==
    \/ \E event \in ListenedEvents, callback \in Callbacks : On(event, callback)
    \/ \E event \in ListenedEvents, callback \in Callbacks : Off(event, callback)
    \/ MessageEvent
    \/ \E status \in {"running", "completed"} :
           AgentStatusEvent([agentId |-> AgentCatalog[1], status |-> status,
                             task |-> TaskOf(status), error |-> ErrorOf(status),
                             progress |-> Undef])

\* ---- activity log

\* the store action called from application code; the texts of an entry are
\* stored and never read, so one subject and one action stand for all
AddActivity(agentId, action) ==
    /\ activityCount < MaxActivityCalls
    /\ activityCount' = activityCount + 1
    /\ SetS(addActivity(S, now, activityCount + 1, agentId, action, NoDetails))
    /\ lastOp' = Op("addActivity", NoId, action)
    /\ UNCHANGED <<now, wsVars, apiVars, restVars>>

ClearActivity ==
    /\ activityCount' = 0
    /\ SetS(clearActivity(S))
    /\ lastOp' = Op("clearActivity", NoId, "")
    /\ UNCHANGED <<now, wsVars, apiVars, restVars>>

NextLog ==
    \/ AddActivity("system", "note")
    \/ ClearActivity

\* ================================================================ AuthManager

Null == [t |-> "null", n |-> 0, s |-> ""]
NaN == [t |-> "NaN", n |-> 0, s |-> ""]

\* a property that JSON.stringify left out
Dropped == [t |-> "dropped", n |-> 0, s |-> ""]

\* JSON.stringify of an object of strings and numbers: a property that is
\* undefined is left out, NaN is written as null
JsonOf(v) == IF v = Undef THEN Dropped ELSE IF v = NaN THEN Null ELSE v
stringify(object) == [kind |-> "json", value |-> [f \in DOMAIN object |-> JsonOf(object[f])]]

\* JSON.parse of such a text: reading a property that was left out gives undefined
ValueOf(j) == IF j = Dropped THEN Undef ELSE j
parse(item) == [f \in DOMAIN item.value |-> ValueOf(item.value[f])]

\* localStorage.getItem(key) === null
NoItem == [kind |-> "absent", value |-> Null]

\* a stored text that JSON.parse rejects
Corrupt == [kind |-> "corrupt", value |-> Null]

\* the AuthManager's fields and the storage as one record
A == [tokens |-> tokens, user |-> user, localStorage |-> localStorage]

SetA(a) ==
    /\ tokens' = a.tokens
    /\ user' = a.user
    /\ localStorage' = a.localStorage

\* mutant: one try / catch around both entries
loadFromStorageOneTry(a) ==
    LET storedTokens == a.localStorage.auth_tokens
        storedUser == a.localStorage.auth_user
    IN  IF storedTokens.kind = "corrupt"
        THEN [a EXCEPT !.localStorage.auth_tokens = NoItem]
        ELSE LET a1 == IF storedTokens.kind = "json"
                       THEN [a EXCEPT !.tokens = parse(storedTokens)] ELSE a
             IN  IF storedUser.kind = "json" THEN [a1 EXCEPT !.user = parse(storedUser)]
                 ELSE IF storedUser.kind = "corrupt"
                 THEN [a1 EXCEPT !.localStorage.auth_user = NoItem]
                 ELSE a1

\* in the browser (typeof window !== 'undefined')
loadFromStorage(a) ==
    LET storedTokens == a.localStorage.auth_tokens
        storedUser == a.localStorage.auth_user
        a1 == IF storedTokens.kind = "json" THEN [a EXCEPT !.tokens = parse(storedTokens)]
              ELSE IF storedTokens.kind = "corrupt"
              THEN [a EXCEPT !.localStorage.auth_tokens = NoItem]
              ELSE a
    IN  IF storedUser.kind = "json" THEN [a1 EXCEPT !.user = parse(storedUser)]
        ELSE IF storedUser.kind = "corrupt"
        THEN [a1 EXCEPT !.localStorage.auth_user = NoItem]
        ELSE a1

\* mutant: a null value is left in storage as it was
saveToStorageNoRemove(a) ==
    [a EXCEPT !.localStorage.auth_tokens =
                  IF a.tokens # Null THEN stringify(a.tokens) ELSE @,
              !.localStorage.auth_user =
                  IF a.user # Null THEN stringify(a.user) ELSE @]

saveToStorage(a) ==
    [a EXCEPT !.localStorage.auth_tokens =
                  IF a.tokens # Null THEN stringify(a.tokens) ELSE NoItem,
              !.localStorage.auth_user =
                  IF a.user # Null THEN stringify(a.user) ELSE NoItem]

\* new AuthManager(): the fields start null and the constructor loads
construct(storage) ==
    loadFromStorage([tokens |-> Null, user |-> Null, localStorage |-> storage])

\* Date.now() + data.expires_in * 1000, in clock ticks
ExpiresAt(t, expires_in) == Num(t + expires_in)

\* login() after the response arrived; it throws when the response is not ok or
\* the fetch failed, and then nothing was written
login(a, t, response) ==
    IF response.kind # "ok" THEN a
    ELSE LET data == response.data
         IN  saveToStorage(
                 [a EXCEPT !.tokens = [accessToken |-> data.access_token,
                                       refreshToken |-> data.refresh_token,
                                       expiresAt |-> ExpiresAt(t, data.expires_in)],
                           !.user = [id |-> data.user.id, email |-> data.user.email,
                                     name |-> data.user.name,
                                     tenantId |-> data.user.tenant_id,
                                     role |-> data.user.role]])

\* logout() after its request, if it made one, was answered or failed
logout(a) == saveToStorage([a EXCEPT !.tokens = Null, !.user = Null])

\* the catch block of refreshTokens()
refreshFailed(a) == saveToStorage([a EXCEPT !.tokens = Null, !.user = Null])

\* refreshTokens() after the response arrived; reading this.tokens.refreshToken
\* throws when logout() has set this.tokens to null in the meantime
refreshTokens(a, t, response) ==
    IF response.kind # "ok" THEN refreshFailed(a)
    ELSE LET data == response.data
         IN  IF data.refresh_token = Undef /\ a.tokens = Null THEN refreshFailed(a)
             ELSE saveToStorage(
                      [a EXCEPT !.tokens =
                          [accessToken |-> data.access_token,
                           refreshToken |-> IF data.refresh_token # Undef
                                            THEN data.refresh_token
                                            ELSE a.tokens.refreshToken,
                           expiresAt |-> ExpiresAt(t, data.expires_in)]])

\* ---- what the backend and the browser can do

\* POST /auth/login: the contract's body, a status that is not ok, or no answer
UserData == [id |-> Str("u1"), email |-> Str("ann@example.org"), name |-> Str("Ann"),
             tenant_id |-> Str("t1"), role |-> Str("admin")]

LoginResponses ==
    {[kind |-> "ok", data |-> [access_token |-> Str("at1"), refresh_token |-> Str("rt1"),
                               expires_in |-> 1, user |-> UserData]],
     [kind |-> "not ok", data |-> Null],
     [kind |-> "failed", data |-> Null]}

\* POST /auth/refresh: refresh_token is optional in the body
RefreshResponses ==
    {[kind |-> "ok", data |-> [access_token |-> Str("at2"), refresh_token |-> r,
                               expires_in |-> 1]] : r \in {Str("rt2"), Undef}}
    \cup {[kind |-> "not ok", data |-> Null], [kind |-> "failed", data |-> Null]}

\* what the two keys can hold when the page loads: nothing, a text that does not
\* parse, or what an earlier session saved
SavedTokens == stringify([accessToken |-> Str("at1"), refreshToken |-> Str("rt1"),
                          expiresAt |-> Num(2)])
SavedUser == stringify([id |-> Str("u1"), email |-> Str("ann@example.org"),
                        name |-> Str("Ann"), tenantId |-> Str("t1"),
                        role |-> Str("admin")])
Storages == [auth_tokens : {NoItem, Corrupt, SavedTokens},
             auth_user : {NoItem, Corrupt, SavedUser}]

AuthCalls == {"login", "logout", "refreshTokens"}

\* what a construction reports: loadFromStorage logs 'Failed to parse stored ...'
\* with console.error for an entry it discards
Constructed(storage) ==
    IF storage.auth_tokens = Corrupt \/ storage.auth_user = Corrupt
    THEN "construct, entry discarded" ELSE "construct"

\* the page loads with some storage and the module constructs the singleton
InitAuth ==
    /\ \E storage \in Storages :
           LET a == construct(storage)
           IN  /\ tokens = a.tokens
               /\ user = a.user
               /\ localStorage = a.localStorage
               /\ lastAuthOp = Constructed(storage)
    /\ authPc = [c \in AuthCalls |-> "idle"]

\* the other specifications start with an empty storage
InitNoAuth ==
    /\ tokens = Null
    /\ user = Null
    /\ localStorage = [auth_tokens |-> NoItem, auth_user |-> NoItem]
    /\ authPc = [c \in AuthCalls |-> "idle"]
    /\ lastAuthOp = "construct"

AuthFrameNoHeaders ==
    UNCHANGED <<wsVars, apiVars, storeVars, listenerVars, gateVars, hookVars,
                webSocketHookVars>>

AuthFrame ==
    UNCHANGED <<wsVars, apiVars, storeVars, listenerVars, gateVars, hookVars,
                webSocketHookVars, headerVars>>

\* authManager.login(email, password) is called and awaits its fetch
LoginCall ==
    /\ authPc["login"] = "idle"
    /\ authPc' = [authPc EXCEPT !["login"] = "awaiting"]
    /\ lastAuthOp' = "login called"
    /\ UNCHANGED <<tokens, user, localStorage>>
    /\ AuthFrame

LoginResponse(response) ==
    /\ authPc["login"] = "awaiting"
    /\ authPc' = [authPc EXCEPT !["login"] = "idle"]
    /\ SetA(login(A, now, response))
    /\ lastAuthOp' = IF response.kind = "ok" THEN "login" ELSE "login failed"
    /\ AuthFrame

\* authManager.logout(): with no tokens it makes no request and clears at once
LogoutCall ==
    /\ authPc["logout"] = "idle"
    /\ IF tokens # Null
       THEN /\ authPc' = [authPc EXCEPT !["logout"] = "awaiting"]
            /\ lastAuthOp' = "logout called"
            /\ UNCHANGED <<tokens, user, localStorage>>
       ELSE /\ SetA(logout(A))
            /\ lastAuthOp' = "logout"
            /\ UNCHANGED authPc
    /\ AuthFrame

\* the logout request was answered, or failed: both continue the same way
LogoutResponse ==
    /\ authPc["logout"] = "awaiting"
    /\ authPc' = [authPc EXCEPT !["logout"] = "idle"]
    /\ SetA(logout(A))
    /\ lastAuthOp' = "logout"
    /\ AuthFrame

\* authManager.refreshTokens(): with no tokens it returns false at once
RefreshCall ==
    /\ authPc["refreshTokens"] = "idle"
    /\ IF tokens # Null
       THEN /\ authPc' = [authPc EXCEPT !["refreshTokens"] = "awaiting"]
            /\ lastAuthOp' = "refresh called"
       ELSE /\ lastAuthOp' = "refresh without tokens"
            /\ UNCHANGED authPc
    /\ UNCHANGED <<tokens, user, localStorage>>
    /\ AuthFrame

RefreshResponse(response) ==
    /\ authPc["refreshTokens"] = "awaiting"
    /\ authPc' = [authPc EXCEPT !["refreshTokens"] = "idle"]
    /\ SetA(refreshTokens(A, now, response))
    /\ lastAuthOp' = IF refreshTokens(A, now, response) = refreshFailed(A)
                     THEN "refresh failed" ELSE "refresh"
    /\ AuthFrame

\* the page is loaded again: the calls in flight are gone and a new AuthManager
\* is constructed from what the storage holds
Reload ==
    /\ SetA(construct(localStorage))
    /\ authPc' = [c \in AuthCalls |-> "idle"]
    /\ lastAuthOp' = Constructed(localStorage)
    /\ AuthFrame

\* something else than the AuthManager leaves a text that does not parse
CorruptItem(key) ==
    /\ localStorage[key] # Corrupt
    /\ localStorage' = [localStorage EXCEPT ![key] = Corrupt]
    /\ lastAuthOp' = "storage corrupted"
    /\ UNCHANGED <<tokens, user, authPc>>
    /\ AuthFrame

NextAuth ==
    \/ Tick
    \/ LoginCall
    \/ \E response \in LoginResponses : LoginResponse(response)
    \/ LogoutCall
    \/ LogoutResponse
    \/ RefreshCall
    \/ \E response \in RefreshResponses : RefreshResponse(response)
    \/ Reload
    \/ \E key \in {"auth_tokens", "auth_user"} : CorruptItem(key)

\* ---- the Authorization header

\* localStorage.getItem(key): null for a key that nothing has stored
getItem(storage, key) == IF key \in DOMAIN storage THEN storage[key] ELSE NoItem

\* `Bearer ${token}`
Bearer(token) == [scheme |-> "Bearer", token |-> token]

\* no request was made and getAuthHeaders() was not called
NoHeaders == [by |-> "none", Authorization |-> Undef]

InitHeaders == headers = NoHeaders

\* the request interceptor of ApiClient: the headers of the outbound request
requestInterceptor(storage) ==
    LET token == getItem(storage, "access_token")
    IN  [by |-> "request",
         Authorization |-> IF token # NoItem THEN Bearer(token) ELSE Undef]

isTokenExpired(a, t) == a.tokens = Null \/ t >= a.tokens.expiresAt.n

\* what getValidToken() returns to a caller that does not await it
Promise == Str("[object Promise]")

\* getAuthHeaders(): token is the promise of getValidToken(), which is an object
\* and so truthy whatever it resolves to
getAuthHeaders(a) ==
    LET token == Promise
    IN  [by |-> "getAuthHeaders",
         Authorization |-> IF token # Null THEN Bearer(token) ELSE Undef]

\* apiClient issues a request: the interceptor builds its headers
RequestInterceptor ==
    /\ headers' = requestInterceptor(localStorage)
    /\ UNCHANGED <<authVars, wsVars, apiVars, storeVars, listenerVars, gateVars,
                   hookVars, webSocketHookVars>>

\* authManager.getAuthHeaders() is called; the getValidToken() it starts calls
\* refreshTokens() when the tokens have expired, and a refresh already awaiting
\* its answer stands for both
GetAuthHeaders ==
    /\ headers' = getAuthHeaders(A)
    /\ authPc' = IF tokens # Null /\ isTokenExpired(A, now)
                 THEN [authPc EXCEPT !["refreshTokens"] = "awaiting"]
                 ELSE authPc
    /\ UNCHANGED <<tokens, user, localStorage, lastAuthOp>>
    /\ AuthFrameNoHeaders

NextAuthHeaders ==
    \/ Tick
    \/ LoginCall
    \/ \E response \in LoginResponses : LoginResponse(response)
    \/ LogoutCall
    \/ LogoutResponse
    \/ RefreshCall
    \/ \E response \in RefreshResponses : RefreshResponse(response)
    \/ Reload
    \/ RequestInterceptor
    \/ GetAuthHeaders

\* ================================================ approval and input gates

\* a string as the sequence of its characters
Empty == <<>>
InputValues ==
    { Empty,
      <<"t", "r", "u", "e">>, <<"T", "R", "U", "E">>,
      <<"f", "a", "l", "s", "e">>, <<" ", "t", "r", "u", "e">>,
      <<"4", "2">>, <<"3", ".", "5">>, <<"-", "7">>, <<" ", "8">>,
      <<"1", "2", "a", "b", "c">>, <<"2", ".", "5", "0">>, <<"a", "b", "c">> }

\* String.prototype.toLowerCase, on the letters that InputValues has
LowerChar(c) ==
    CASE c = "T" -> "t"
      [] c = "R" -> "r"
      [] c = "U" -> "u"
      [] c = "E" -> "e"
      [] OTHER -> c

toLowerCase(str) == [i \in DOMAIN str |-> LowerChar(str[i])]

\* JavaScript values a response carries
JsString(str) == [t |-> "string", chars |-> str]
JsBoolean(b) == [t |-> "boolean", b |-> b]

\* the number m / 10^k, with no trailing zero in its fraction
RECURSIVE JsNumber(_, _)
JsNumber(m, k) ==
    IF k > 0 /\ m % 10 = 0
    THEN JsNumber(m \div 10, k - 1)
    ELSE [t |-> "number", m |-> m, k |-> k]

Digits == {"0", "1", "2", "3", "4", "5", "6", "7", "8", "9"}

DigitValue(c) ==
    CASE c = "0" -> 0 [] c = "1" -> 1 [] c = "2" -> 2 [] c = "3" -> 3
      [] c = "4" -> 4 [] c = "5" -> 5 [] c = "6" -> 6 [] c = "7" -> 7
      [] c = "8" -> 8 [] c = "9" -> 9

\* the first index from i on at which str has no character of set, or Len(str) + 1
SkipWhile(str, i, set) ==
    CHOOSE j \in i..(Len(str) + 1) :
        /\ j = Len(str) + 1 \/ str[j] \notin set
        /\ \A h \in i..(j - 1) : str[h] \in set

\* the value of the decimal digits str[i..j-1]
RECURSIVE DigitsValue(_, _, _)
DigitsValue(str, i, j) ==
    IF j <= i THEN 0 ELSE DigitsValue(str, i, j - 1) * 10 + DigitValue(str[j - 1])

RECURSIVE Pow10(_)
Pow10(k) == IF k = 0 THEN 1 ELSE 10 * Pow10(k - 1)

\* parseFloat: leading white space is skipped, then the longest prefix that is a
\* decimal literal (sign, digits, fraction) is the value, and NaN results when
\* there is none. The exponent part and Infinity, which no member of InputValues
\* has, are left out.
parseFloat(str) ==
    LET start == SkipWhile(str, 1, {" "})
        signed == start <= Len(str) /\ str[start] \in {"-", "+"}
        int == IF signed THEN start + 1 ELSE start
        intEnd == SkipWhile(str, int, Digits)
        dotted == intEnd <= Len(str) /\ str[intEnd] = "."
        frac == IF dotted THEN intEnd + 1 ELSE intEnd
        fracEnd == SkipWhile(str, frac, Digits)
        k == fracEnd - frac
        magnitude == DigitsValue(str, int, intEnd) * Pow10(k)
                         + DigitsValue(str, frac, fracEnd)
    IN  IF intEnd = int /\ k = 0
        THEN NaN
        ELSE JsNumber(IF signed /\ str[start] = "-" THEN 0 - magnitude ELSE magnitude, k)

\* mutant: the boolean kind compares the entered string as it is
handleSubmitCaseSensitive(input_type, value) ==
    IF input_type = "number"
    THEN [input |-> parseFloat(value)]
    ELSE IF input_type = "boolean"
    THEN [input |-> JsBoolean(value = <<"t", "r", "u", "e">>)]
    ELSE [input |-> JsString(value)]

\* what InputModal.handleSubmit passes to respond
handleSubmit(input_type, value) ==
    IF input_type = "number"
    THEN [input |-> parseFloat(value)]
    ELSE IF input_type = "boolean"
    THEN [input |-> JsBoolean(toLowerCase(value) = <<"t", "r", "u", "e">>)]
    ELSE [input |-> JsString(value)]

\* what InputModal.handleCancel passes to respond
handleCancel == [cancelled |-> TRUE]

\* what ApprovalModal.handleApprove and handleReject pass to respond
handleApprove == [approved |-> TRUE, reason |-> ""]
handleReject(why) == [approved |-> FALSE, reason |-> why]

\* the two tools useHumanApproval registers, and the input kinds of a call
Tools == {"requestHumanApproval", "requestHumanInput"}
InputTypes == {"text", "number", "boolean", "select"}
Reasons == {"", "too risky"}
NoCall == [tool |-> "none", input_type |-> Undefined, status |-> "none"]

\* the modal of the tool is rendered: the component returns null unless the
\* status is 'executing'
Shown(tool) == gate.tool = tool /\ gate.status = "executing"

InitGate ==
    /\ gate = NoCall
    /\ inputValue = Empty
    /\ reasonValue = ""
    /\ responses = <<>>
    /\ calls = 0

GateFrame ==
    UNCHANGED <<wsVars, apiVars, storeVars, listenerVars, authVars, hookVars,
                webSocketHookVars, headerVars>>

\* the framework starts a tool call and renders it with status 'inProgress'
\* while the arguments arrive; the modal is a new component, its state ''
ToolCall(tool, input_type) ==
    /\ gate.status \in {"none", "complete"}
    /\ calls < MaxCalls
    /\ calls' = calls + 1
    /\ gate' = [tool |-> tool, input_type |-> input_type, status |-> "inProgress"]
    /\ inputValue' = Empty
    /\ reasonValue' = ""
    /\ responses' = <<>>
    /\ GateFrame

\* the framework awaits the response: it renders with status 'executing'
AwaitResponse ==
    /\ gate.status = "inProgress"
    /\ gate' = [gate EXCEPT !.status = "executing"]
    /\ UNCHANGED <<inputValue, reasonValue, responses, calls>>
    /\ GateFrame

\* the framework has taken the response: it renders with status 'complete'
Complete ==
    /\ gate.status = "executing"
    /\ responses # <<>>
    /\ gate' = [gate EXCEPT !.status = "complete"]
    /\ UNCHANGED <<inputValue, reasonValue, responses, calls>>
    /\ GateFrame

\* onChange of the input field
SetInputValue(value) ==
    /\ Shown("requestHumanInput")
    /\ inputValue' = value
    /\ UNCHANGED <<gate, reasonValue, responses, calls>>
    /\ GateFrame

\* onChange of the reason field
SetReason(why) ==
    /\ Shown("requestHumanApproval")
    /\ reasonValue' = why
    /\ UNCHANGED <<gate, inputValue, responses, calls>>
    /\ GateFrame

\* the Submit button
HandleSubmit ==
    /\ Shown("requestHumanInput")
    /\ Len(responses) < MaxResponds
    /\ responses' = Append(responses, handleSubmit(gate.input_type, inputValue))
    /\ UNCHANGED <<gate, inputValue, reasonValue, calls>>
    /\ GateFrame

\* the Cancel button
HandleCancel ==
    /\ Shown("requestHumanInput")
    /\ Len(responses) < MaxResponds
    /\ responses' = Append(responses, handleCancel)
    /\ UNCHANGED <<gate, inputValue, reasonValue, calls>>
    /\ GateFrame

\* the Approve button
HandleApprove ==
    /\ Shown("requestHumanApproval")
    /\ Len(responses) < MaxResponds
    /\ responses' = Append(responses, handleApprove)
    /\ UNCHANGED <<gate, inputValue, reasonValue, calls>>
    /\ GateFrame

\* the Reject button
HandleReject ==
    /\ Shown("requestHumanApproval")
    /\ Len(responses) < MaxResponds
    /\ responses' = Append(responses, handleReject(reasonValue))
    /\ UNCHANGED <<gate, inputValue, reasonValue, calls>>
    /\ GateFrame

NextGate ==
    \/ \E input_type \in InputTypes : ToolCall("requestHumanInput", input_type)
    \/ ToolCall("requestHumanApproval", Undefined)
    \/ AwaitResponse
    \/ Complete
    \/ \E value \in InputValues : SetInputValue(value)
    \/ \E why \in Reasons : SetReason(why)
    \/ HandleSubmit
    \/ HandleCancel
    \/ HandleApprove
    \/ HandleReject

\* ================================================== useAgentOrchestration

\* the tools the hook registers, and the agent types a task names
FrontendTools == {"executeAgentTask", "executeWorkflow"}
AgentTypes == {"validator", "repository_analyzer"}

\* currentTask: null
NoAgentTask == [agent_type |-> "null"]

InitHook ==
    /\ hookIsExecuting = FALSE
    /\ hookCurrentTask = NoAgentTask
    /\ handlers = <<>>

HookFrame ==
    UNCHANGED <<wsVars, apiVars, storeVars, listenerVars, authVars, gateVars,
                webSocketHookVars, headerVars>>

\* a handler is invoked and runs up to its await of axios.post; executeWorkflow
\* has no agent_type and leaves currentTask alone
HandlerStart(tool, agent_type) ==
    /\ Len(handlers) < MaxHandlers
    /\ hookIsExecuting' = TRUE
    /\ hookCurrentTask' = IF tool = "executeAgentTask"
                          THEN [agent_type |-> agent_type]
                          ELSE hookCurrentTask
    /\ handlers' = Append(handlers, [tool |-> tool, agent_type |-> agent_type,
                                     pc |-> "awaiting"])
    /\ HookFrame

\* axios.post of handler i resolves or rejects: the handler returns its result
\* and runs its finally block
HandlerFinish(i, success) ==
    /\ handlers[i].pc = "awaiting"
    /\ hookIsExecuting' = FALSE
    /\ hookCurrentTask' = IF handlers[i].tool = "executeAgentTask"
                          THEN NoAgentTask
                          ELSE hookCurrentTask
    /\ handlers' = [handlers EXCEPT ![i].pc = IF success THEN "succeeded" ELSE "failed"]
    /\ HookFrame

NextHook ==
    \/ \E agent_type \in AgentTypes : HandlerStart("executeAgentTask", agent_type)
    \/ HandlerStart("executeWorkflow", Undefined)
    \/ \E i \in DOMAIN handlers, success \in BOOLEAN : HandlerFinish(i, success)

\* ================================================================ useWebSocket

\* the hook is mounted: its effect has registered updateConnectionStatus
Mounted == eventListeners["connect"] # <<>>

\* no component uses the hook yet
InitUseWebSocket == isConnected = FALSE

\* a component using the hook is rendered for the first time: useState takes
\* wsManager.isConnected(), then the effect registers updateConnectionStatus for
\* 'connect' and 'disconnect' and calls wsManager.connect(). The callback would
\* set isConnected to wsManager.isConnected(); it runs when emit() is called with
\* one of these two events, which no handler of the manager does.
UseWebSocketMount ==
    /\ ~Mounted
    /\ Opens(M) => Len(sockets) < MaxSockets
    /\ isConnected' = connected(M)
    /\ SetL(on(on(L, "connect", "updateConnectionStatus"),
               "disconnect", "updateConnectionStatus"))
    /\ SetM(connect(M))
    /\ connectReturn' = "none"
    /\ UNCHANGED <<sendCount, hidden, enableWebSocket, apiVars, storeVars, authVars,
                   gateVars, hookVars, headerVars>>

\* the component is unmounted: the cleanup of the effect unregisters the callback
UseWebSocketUnmount ==
    /\ Mounted
    /\ SetL(off(off(L, "connect", "updateConnectionStatus"),
                "disconnect", "updateConnectionStatus"))
    /\ UNCHANGED <<wsVars, apiVars, storeVars, authVars, gateVars, hookVars,
                   webSocketHookVars, headerVars>>

NextWebSocketHook ==
    \/ UseWebSocketMount
    \/ UseWebSocketUnmount
    \/ Connect
    \/ Disconnect
    \/ VisibilityChange
    \/ Send
    \/ \E s \in SocketIds : SocketConnect(s)
    \/ \E s \in SocketIds : SocketConnectError(s)
    \/ \E s \in SocketIds : TransportLoss(s)
    \/ \E s \in SocketIds : ServerDisconnect(s)

\* ============================================================== specifications

\* the connection manager, with no request in progress
InitSpecWS == InitWS /\ InitRequest /\ InitStore /\ InitListeners /\ InitNoAuth
    /\ InitGate
    /\ InitHook
    /\ InitUseWebSocket
    /\ InitHeaders
SpecWS == InitSpecWS /\ [][NextWS]_vars

\* one request() call, with the connection manager left alone
InitSpecApi ==
    InitWS /\ enableWebSocket = TRUE /\ InitRequest /\ InitStore /\ InitListeners /\ InitNoAuth
    /\ InitGate
    /\ InitHook
    /\ InitUseWebSocket
    /\ InitHeaders
SpecApi == InitSpecApi /\ [][NextRequest]_vars

\* the store specifications start with no socket opened and no request made
InitSpecStore == InitSpecApi

\* the workflows slice of the store
SpecWorkflow == InitSpecStore /\ [][NextWorkflow]_vars

\* the workflows slice with the push event that writes to it
SpecWorkflowEvents == InitSpecStore /\ [][NextWorkflowEvents]_vars

\* the agents slice of the store, with the push event that writes to it
SpecAgents == InitSpecStore /\ [][NextAgents]_vars

\* the listener registry and the dispatch of push events to it
SpecListeners == InitSpecStore /\ [][NextListeners]_vars

\* the activity log of the store
SpecLog == InitSpecStore /\ [][NextLog]_vars

\* the approvals slice of the store, with the push events that write to it
SpecApproval == InitSpecStore /\ [][NextApproval]_vars

\* the AuthManager across page loads
InitSpecAuth ==
    InitWS /\ enableWebSocket = TRUE /\ InitRequest /\ InitStore /\ InitListeners /\ InitAuth
    /\ InitGate
    /\ InitHook
    /\ InitUseWebSocket
    /\ InitHeaders
SpecAuth == InitSpecAuth /\ [][NextAuth]_vars

\* the approval and input gates
SpecGate == InitSpecStore /\ [][NextGate]_vars

\* the orchestration hook
SpecHook == InitSpecStore /\ [][NextHook]_vars

\* the connection manager with a component that uses useWebSocket
SpecWebSocketHook == InitSpecWS /\ [][NextWebSocketHook]_vars

\* the AuthManager with the requests that carry its token
SpecAuthHeaders == InitSpecAuth /\ [][NextAuthHeaders]_vars

\* healthCheck() calls, one after the other
SpecHealthCheck == InitSpecApi /\ [][NextHealthCheck]_vars

\* ===================================================================== claims

\* wsManager.isConnected()
IsConnected == connected(M)

\* the message ids of a sequence of wire entries, in order
RECURSIVE Msgs(_)
Msgs(w) == IF w = <<>> THEN <<>> ELSE <<Head(w).msg>> \o Msgs(Tail(w))

Range(f) == {f[i] : i \in DOMAIN f}

\* C1: a send() while the manager is not connected appends the message to the
\* queue and transmits nothing; and whenever the manager goes from not connected
\* to connected, in that same step the whole queue is handed to the transport of
\* the current socket, each entry once and in queue order, and the queue is empty.
C1_QueueFlushedOnConnect ==
    [][ /\ (sendCount' = sendCount + 1 /\ ~IsConnected)
            => /\ messageQueue' = Append(messageQueue, sendCount + 1)
               /\ wire' = wire
        /\ (~IsConnected /\ IsConnected')
            => /\ messageQueue' = <<>>
               /\ Msgs(wire') = Msgs(wire) \o messageQueue
               /\ \A i \in (Len(wire) + 1) .. Len(wire') : wire'[i].sock = socket'
      ]_vars

\* C1 witness: two messages queued while disconnected have both been flushed, in
\* order, by a connection, and the queue is empty
C1_Witness ==
    /\ IsConnected
    /\ messageQueue = <<>>
    /\ sendCount = 2
    /\ wire = <<[msg |-> 1, sock |-> socket], [msg |-> 2, sock |-> socket]>>
    /\ \E s \in SocketIds : sockets[s].st = "closed"

\* C2: messages reach the transport in the order of the send() calls: the ids on
\* the wire are strictly increasing, and no message on the wire was sent after a
\* message that is still queued.
C2_SendOrder ==
    /\ \A i, j \in 1 .. Len(wire) : i < j => wire[i].msg < wire[j].msg
    /\ \A i \in 1 .. Len(wire) : \A k \in 1 .. Len(messageQueue) :
           wire[i].msg < messageQueue[k]
    /\ \A i, j \in 1 .. Len(messageQueue) : i < j => messageQueue[i] < messageQueue[j]

\* C2 witness: a message went out directly on one socket, and after a loss of
\* connection two queued messages were flushed on another
C2_Witness ==
    /\ Len(wire) = 3
    /\ wire[1].sock # wire[2].sock
    /\ wire[2].sock = wire[3].sock

\* C3: every message passed to send() is either on the wire exactly once or in
\* the queue exactly once, and nothing else is.
C3_NoLossNoDuplicate ==
    /\ Len(wire) + Len(messageQueue) = sendCount
    /\ Range(Msgs(wire)) \cup Range(messageQueue) = 1 .. sendCount

\* C3 witness: after a disconnect() with a message queued, a failed attempt and a
\* later connection, one message is on the wire and one is queued again
C3_Witness ==
    /\ sendCount = MaxMsgs
    /\ Len(wire) >= 1
    /\ Len(messageQueue) >= 1
    /\ \E s \in SocketIds : sockets[s].st = "closed"
    /\ \E s \in SocketIds : sockets[s].onceConnectError = FALSE

\* C10: at most one socket created by the manager is live (connecting, connected
\* or reconnecting by itself) with its event handlers attached.
C10_SingleLiveSocket == Cardinality({s \in SocketIds : Live(s)}) <= 1

\* ---------------------------------------------------------- request client

\* maxAttempts in effect for the call
MaxAttemptsInEffect == merged(customRetryConfig).maxAttempts

\* the statuses the retry policy names retryable
RetryableStatusList == {408, 429, 500, 502, 503, 504}

\* a failure with no response received: the request went out and nothing came
\* back, or the error carries an aborted / network code
TransportFailure(raw) ==
    \/ raw.kind = "request"
    \/ raw.kind = "setup" /\ raw.code \in {"ECONNABORTED", "NETWORK_ERROR"}

\* min(base * factor^(k-1), maxDelay) of the client's retry policy
PolicyDelay(k) ==
    LET d == RetryDelay * Pow(BackoffFactor, k - 1)
    IN  IF d > MaxDelay THEN MaxDelay ELSE d

IsApiError(e) ==
    /\ DOMAIN e = {"message", "code", "status", "details", "retryable"}
    /\ e.retryable \in BOOLEAN
    /\ DOMAIN e.message = {"text", "arg"}
    /\ e.status \in Int
    /\ e.code \in STRING

\* C4: a request() call makes at most maxAttempts attempts, one at a time, and
\* makes attempt k+1 only if attempt k failed with an error classified retryable.
C4_BoundedRetries ==
    [][ attemptsMade' # attemptsMade =>
          /\ attemptsMade' = attemptsMade + 1
          /\ attemptsMade' <= MaxAttemptsInEffect
          /\ attemptsMade >= 1 =>
                /\ lastRaw.kind # "ok"
                /\ "retryable" \in DOMAIN lastError
                /\ lastError.retryable
      ]_vars

\* C4 witness: all maxAttempts attempts were made and the last one failed with a
\* retryable error too
C4_Witness ==
    /\ pc = "thrown"
    /\ attemptsMade = MaxAttemptsInEffect
    /\ attemptsMade >= 3
    /\ lastError.retryable

\* C5: when the first maxAttempts-1 attempts fail with status 503 and the next
\* one succeeds, the call returns the success response after exactly maxAttempts
\* attempts, having slept min(base * factor^(k-1), maxDelay) after the k-th failure.
C5_RetryThenSuccess ==
    (pc = "returned" /\ only503 /\ attemptsMade = MaxAttemptsInEffect)
        => /\ outcome = [how |-> "returned", value |-> OkResponse]
           /\ Len(sleeps) = MaxAttemptsInEffect - 1
           /\ \A k \in 1 .. Len(sleeps) : sleeps[k] = PolicyDelay(k)

\* C5 witness: the default policy, two 503 failures, then success
C5_Witness ==
    /\ pc = "returned"
    /\ only503
    /\ customRetryConfig.maxAttempts = 0
    /\ attemptsMade = RetryAttempts
    /\ sleeps = <<1000, 2000>>

\* C6: an attempt that fails with 401, 403 or any other terminal error (a status
\* outside the retryable list, or an error that is neither such a status nor a
\* transport failure) ends the call: the call has thrown that error,
\* non-retryable, and neither a sleep nor another attempt follows it (one attempt
\* and no sleep when it is the first).
C6_TerminalNotRetried ==
    (/\ attemptsMade >= 1
     /\ lastRaw.kind # "ok"
     /\ ~(lastRaw.kind = "response" /\ lastRaw.status \in RetryableStatusList)
     /\ ~TransportFailure(lastRaw))
        => /\ pc = "thrown"
           /\ outcome.how = "thrown"
           /\ outcome.value = lastError
           /\ lastError.status = lastRaw.status
           /\ lastError.retryable = FALSE
           /\ Len(sleeps) = attemptsMade - 1
           /\ attempt = attemptsMade

\* C6 witness: a 401 on the first attempt with two attempts left
C6_Witness ==
    /\ pc = "thrown"
    /\ lastRaw.kind = "response" /\ lastRaw.status = 401
    /\ attemptsMade = 1
    /\ sleeps = <<>>
    /\ MaxAttemptsInEffect = 3

\* C7: an error is classified retryable exactly when it carries a status of the
\* retryable list or is a transport failure with no response; every other status
\* is classified not retryable.
C7_Classification ==
    (attemptsMade >= 1 /\ lastRaw.kind # "ok")
        => /\ "retryable" \in DOMAIN lastError
           /\ lastError.retryable
                <=> \/ lastRaw.kind = "response" /\ lastRaw.status \in RetryableStatusList
                    \/ TransportFailure(lastRaw)

\* C7 witness: a 429 was classified retryable
C7_Witness ==
    /\ attemptsMade >= 1
    /\ lastRaw.kind = "response" /\ lastRaw.status = 429
    /\ lastError.retryable
    /\ pc = "sleeping"

\* the delays of attempts 1..6 under base 1000, factor 2, maxDelay 30000
DelayTable == <<1000, 2000, 4000, 8000, 16000, 30000>>

\* C8: the delay slept after attempt n is min(baseDelay * backoffFactor^(n-1),
\* maxDelay): 1000, 2000, 4000, 8000, 16000, 30000 for n = 1..6, never above
\* maxDelay and never smaller than the delay before it.
C8_DelayFormula ==
    \A n \in 1 .. Len(sleeps) :
        /\ sleeps[n] = PolicyDelay(n)
        /\ n <= Len(DelayTable) => sleeps[n] = DelayTable[n]
        /\ sleeps[n] <= MaxDelay
        /\ n > 1 => sleeps[n - 1] <= sleeps[n]

\* C8 witness: seven delays were slept, the sixth and seventh capped
C8_Witness ==
    /\ Len(sleeps) >= 7
    /\ sleeps[5] = 16000
    /\ sleeps[6] = MaxDelay
    /\ sleeps[7] = MaxDelay

\* C9: what request() throws is a structured error (message, retryable flag,
\* optional code, status and details) describing the failure of the last
\* attempt, never the transport's own error.
C9_StructuredError ==
    pc = "thrown"
        => /\ outcome.how = "thrown"
           /\ IsApiError(outcome.value)
           /\ outcome.value \notin RawErrors
           /\ attemptsMade >= 1
           /\ lastRaw.kind = "response" =>
                 (outcome.value.status = lastRaw.status /\ outcome.value.details = lastRaw.data)
           /\ lastRaw.kind = "request" =>
                 (outcome.value.status = 0 /\ outcome.value.code = "NETWORK_ERROR"
                                           /\ outcome.value.retryable)
           /\ lastRaw.kind = "setup" =>
                 (outcome.value.status = 0 /\ outcome.value.code = lastRaw.code)

\* C9 witness: the attempts are exhausted on a network failure, and a terminal
\* error would be thrown alike
C9_Witness ==
    /\ pc = "thrown"
    /\ lastRaw.kind = "request"
    /\ attemptsMade = 3
    /\ outcome.value.retryable


C12_DisconnectClosesAll ==
    socket = 0 => (~IsConnected /\ \A s \in SocketIds : ~Live(s))

\* automatic connection attempts started for socket s since the connection loss it
\* answers: the reconnection attempts of socket.io, and the open of a socket that
\* the 'disconnect' handler created
AutoAttempts(s) ==
    LET initial == IF sockets[s].auto THEN 1 ELSE 0
    IN  IF sockets[s].st = "reconnecting" THEN initial + sockets[s].attempts + 1
        ELSE IF sockets[s].st = "connecting" THEN initial
        ELSE 0

\* C13: after a connection loss no more than maxReconnectAttempts automatic
\* connection attempts are made.
C13_AtMostFiveAttempts ==
    \A s \in SocketIds : AutoAttempts(s) <= maxReconnectAttempts


\* the stored approval created from the approval_request event that named id
FromEvent(req, id) == req.request.origin = id

Resolution(arg) == IF arg = "true" THEN "approved" ELSE "rejected"

\* C14: an approval_response event naming a request that was received by an
\* approval_request event and is still pending resolves the stored approval made
\* from that event: approved when approved is true, rejected otherwise.
C14_ResponseResolvesRequest ==
    [][lastOp'.op = "approval_response"
       => \A i \in DOMAIN pendingApprovals :
              (FromEvent(pendingApprovals[i], lastOp'.id)
               /\ pendingApprovals[i].status = "pending")
              => /\ i \in DOMAIN pendingApprovals'
                 /\ pendingApprovals'[i].status = Resolution(lastOp'.arg)]_vars

\* C15: the status of a stored approval that is approved or rejected is not
\* changed by any later resolveApprovalRequest call or approval_response event.
C15_ResolvedOnce ==
    [][lastOp'.op \in {"resolveApprovalRequest", "approval_response"}
       => \A i \in DOMAIN pendingApprovals :
              pendingApprovals[i].status # "pending"
              => /\ i \in DOMAIN pendingApprovals'
                 /\ pendingApprovals'[i].status = pendingApprovals[i].status]_vars

\* C16: resolveApprovalRequest with an identifier that no stored approval has
\* leaves the list of approvals as it was.
C16_UnknownIdNoOp ==
    [][(lastOp'.op = "resolveApprovalRequest"
        /\ \A i \in DOMAIN pendingApprovals : pendingApprovals[i].id # lastOp'.id)
       => pendingApprovals' = pendingApprovals]_vars

\* C16 witness: two approvals are stored, one resolved and one pending, and the
\* latest call named an identifier that neither has
C16_Witness ==
    /\ lastOp.op = "resolveApprovalRequest"
    /\ Len(pendingApprovals) = 2
    /\ \A i \in DOMAIN pendingApprovals : pendingApprovals[i].id # lastOp.id
    /\ \E i \in DOMAIN pendingApprovals : pendingApprovals[i].status = "pending"
    /\ \E i \in DOMAIN pendingApprovals : pendingApprovals[i].status = "approved"


\* C17: after k addActivity calls on an empty log, the log holds min(k, 100)
\* entries: the latest calls, the newest first, so that the oldest entries are
\* the ones missing; it never holds more than 100.
C17_BoundedNewestFirst ==
    /\ Len(activityLog) = Min(activityCount, ActivityCapacity)
    /\ Len(activityLog) <= ActivityCapacity
    /\ \A i \in DOMAIN activityLog : activityLog[i].seq = activityCount - i + 1

\* C17 witness: 105 calls were made, 100 entries are kept, the 105th first and the
\* 6th last
C17_Witness ==
    /\ activityCount = ActivityCapacity + 5
    /\ Len(activityLog) = ActivityCapacity
    /\ activityLog[1].seq = activityCount
    /\ activityLog[ActivityCapacity].seq = 6


Member(x, seq) == \E j \in DOMAIN seq : seq[j] = x

\* C18: the currentStep of a running workflow is one of its steps.
C18_CurrentStepInSteps ==
    \A i \in DOMAIN workflows :
        workflows[i].status = "running"
        => Member(workflows[i].currentStep, workflows[i].steps)

\* C19: startWorkflow appends a record that is running at the first of its steps
\* and sets isExecuting; completeWorkflow for a stored record makes it completed,
\* stamps its endTime with the current time, stores the results and clears
\* isExecuting.
C19_StartThenComplete ==
    [][/\ lastOp'.op = "startWorkflow"
          => /\ Len(workflows') = Len(workflows) + 1
             /\ SubSeq(workflows', 1, Len(workflows)) = workflows
             /\ LET w == workflows'[Len(workflows')]
                IN  /\ w.status = "running"
                    /\ w.currentStep = First(w.steps)
                    /\ w.id = lastOp'.id
             /\ isExecuting'
       /\ lastOp'.op = "completeWorkflow"
          => /\ Len(workflows') = Len(workflows)
             /\ \A i \in DOMAIN workflows :
                    IF workflows[i].id = lastOp'.id
                    THEN /\ workflows'[i].status = "completed"
                         /\ workflows'[i].endTime = now
                         /\ workflows'[i].results = lastOp'.arg
                    ELSE workflows'[i] = workflows[i]
             /\ ~isExecuting']_vars

\* C19 witness: a workflow started at time 1 was completed at time 2
C19_Witness ==
    /\ lastOp.op = "completeWorkflow"
    /\ Len(workflows) = 1
    /\ workflows[1].id = lastOp.id
    /\ workflows[1].steps # <<>>
    /\ workflows[1].status = "completed"
    /\ workflows[1].startTime = 1
    /\ workflows[1].endTime = 2
    /\ workflows[1].results = "ok"
    /\ ~isExecuting

\* C20: a workflow that is completed or in error keeps that status for as long as
\* it is stored.
C20_TerminalStatus ==
    [][lastOp'.op # "clearWorkflows"
       => \A i \in DOMAIN workflows :
              workflows[i].status \in {"completed", "error"}
              => /\ i \in DOMAIN workflows'
                 /\ workflows'[i].status = workflows[i].status]_vars


\* the agent record after updateAgentStatus(id, status, task, error)
StatusApplied(agent, status) ==
    [agent EXCEPT !.status = status, !.currentTask = TaskOf(status),
                  !.error = ErrorOf(status),
                  !.progress = IF status = "completed" THEN Num(100) ELSE Num(0)]

\* C21: updateAgentStatus sets status, task and error of the agent it names, and
\* its progress to 100 for completed and to 0 otherwise; every other agent and
\* the workflows, approvals, activity log and executing flag stay as they were.
C21_UpdateAgentStatusFrame ==
    [][lastOp'.op = "updateAgentStatus"
       => /\ Len(agents') = Len(agents)
          /\ \A i \in DOMAIN agents :
                 agents'[i] = IF agents[i].id = lastOp'.id
                              THEN StatusApplied(agents[i], lastOp'.arg)
                              ELSE agents[i]
          /\ UNCHANGED <<workflows, activeWorkflow, pendingApprovals, activityLog,
                         isExecuting, currentTask>>]_vars

\* C21 witness: the first agent was just completed, at progress 100, while the
\* last agent is running at progress 50 and a workflow is executing
C21_Witness ==
    /\ lastOp.op = "updateAgentStatus"
    /\ lastOp.id = AgentCatalog[1]
    /\ agents[1].status = "completed"
    /\ agents[1].progress = Num(100)
    /\ agents[5].status = "running"
    /\ agents[5].progress = Num(50)
    /\ agents[2] = initialAgents[2]
    /\ isExecuting
    /\ Len(activityLog) = 1

\* C22: the agent list holds the identifiers of the catalog, each once and in
\* the catalog's order.
C22_FixedCatalog ==
    /\ Len(agents) = Len(AgentCatalog)
    /\ \A i \in DOMAIN agents : agents[i].id = AgentCatalog[i]

\* C22 witness: an agent_status_update naming an agent outside the catalog was
\* handled after an agent of the catalog had been updated
C22_Witness ==
    /\ lastOp.op = "agent_status_update"
    /\ lastOp.id = Id("unknown_agent", 0)
    /\ agents[1].status = "error"
    /\ Len(activityLog) = 1


\* the records of a list have identifiers that differ from each other
DistinctIds(seq) == \A i, j \in DOMAIN seq : i # j => seq[i].id # seq[j].id

\* C30: any two stored workflows have different ids, and any two stored approval
\* requests have different ids.
C30_UniqueIds == DistinctIds(workflows) /\ DistinctIds(pendingApprovals)


\* C23: when a push event is dispatched and none of the callbacks registered for
\* it unregisters anything, every registered callback is invoked, in order, also
\* those after a callback that throws; no exception leaves the dispatch, and the
\* store holds what the handler wrote before it.
C23_ThrowingListenerIsolated ==
    [][(lastOp'.op \in ListenedEvents
        /\ \A i \in DOMAIN eventListeners[lastOp'.op] :
               eventListeners[lastOp'.op][i] # "once")
       => /\ delivered' = eventListeners[lastOp'.op]
          /\ ~escaped'
          /\ eventListeners' = eventListeners
          /\ lastOp'.op = "agent_status_update"
             => /\ agents'[1] = StatusApplied(agents[1], lastOp'.arg)
                /\ Len(activityLog') = Len(activityLog) + 1]_vars

\* C23 witness: an agent_status_update was dispatched to a callback that throws
\* and then to one that returns
C23_Witness ==
    /\ lastOp.op = "agent_status_update"
    /\ eventListeners["agent_status_update"] = <<"faulty", "render">>
    /\ delivered = <<"faulty", "render">>
    /\ agents[1].status = "running"


\* what a manager constructed from the present storage would hold
Reloaded == construct(localStorage)

\* C26: right after a login or a refresh persisted the tokens and the user, a
\* manager loading from the storage holds the same tokens and the same user;
\* right after a logout or a failed refresh it holds null tokens and a null user.
C26_PersistRoundTrip ==
    /\ lastAuthOp \in {"login", "refresh"}
       => /\ tokens # Null
          /\ Reloaded.tokens = tokens
          /\ Reloaded.user = user
    /\ lastAuthOp \in {"logout", "refresh failed"}
       => /\ Reloaded.tokens = Null
          /\ Reloaded.user = Null

\* C26 witness: the tokens of a login were refreshed by a response without a
\* refresh token, the storage holds them, and the user is still stored
C26_Witness ==
    /\ lastAuthOp = "refresh"
    /\ tokens.accessToken = Str("at2")
    /\ tokens.refreshToken = Str("rt1")
    /\ user # Null
    /\ localStorage.auth_tokens = stringify(tokens)
    /\ localStorage.auth_user = stringify(user)

C24_VisibilityReconnect ==
    [][hidden' # hidden
       => IF hidden'
          THEN /\ socket' = 0
               /\ ~isConnecting'
               /\ socket # 0 => sockets'[socket].st = "closed"
          ELSE enableWebSocket
               => /\ socket' # 0
                  /\ isConnecting' \/ sockets'[socket'].st = "connected"
                  /\ ~(IsConnected \/ isConnecting)
                     => /\ Len(sockets') = Len(sockets) + 1
                        /\ socket' = Len(sockets')
                        /\ sockets'[socket'].st = "connecting"
                        /\ isConnecting']_vars

\* C24 witness: the page is hidden, the manager holds no socket and has no
\* attempt in flight, and both sockets it had connected are closed
C24_Witness ==
    /\ hidden
    /\ enableWebSocket
    /\ socket = 0
    /\ ~isConnecting
    /\ Len(sockets) = 2
    /\ \A s \in SocketIds : sockets[s].st = "closed" /\ ~sockets[s].onceConnect

\* the promise connect() returned for socket s is settled: one of the two once()
\* handlers that resolve it has run
Settled(s) == ~sockets[s].onceConnect \/ ~sockets[s].onceConnectError

\* C25: the promise of a connect() call does not stay pending for ever: a
\* socket that is closed, and so delivers no further event, has settled it.
C25_ConnectPromiseSettles ==
    \A s \in SocketIds : sockets[s].st = "closed" => Settled(s)


\* the number a decimal numeral at the head of the entered string denotes, as
\* the specification of parseFloat gives it for each member of InputValues
ParsedNumber(str) ==
    CASE str = <<"4", "2">> -> [t |-> "number", m |-> 42, k |-> 0]
      [] str = <<"3", ".", "5">> -> [t |-> "number", m |-> 35, k |-> 1]
      [] str = <<"-", "7">> -> [t |-> "number", m |-> 0 - 7, k |-> 0]
      [] str = <<" ", "8">> -> [t |-> "number", m |-> 8, k |-> 0]
      [] str = <<"1", "2", "a", "b", "c">> -> [t |-> "number", m |-> 12, k |-> 0]
      [] str = <<"2", ".", "5", "0">> -> [t |-> "number", m |-> 25, k |-> 1]
      [] OTHER -> NaN

\* the entered string is "true", whatever the case of its letters
IsTrueIgnoringCase(str) ==
    /\ Len(str) = 4
    /\ str[1] \in {"t", "T"}
    /\ str[2] \in {"r", "R"}
    /\ str[3] \in {"u", "U"}
    /\ str[4] \in {"e", "E"}

\* the response the latest step passed to respond
LastResponse == responses'[Len(responses')]

\* C28: Submit answers with the parsed number for the kind number, with true
\* exactly for "true" in any case for the kind boolean, and with the entered
\* string for every other kind; Cancel answers with a result that has no input
\* value, and so is not the answer Submit gives for the empty string.
C28_InputGateResult ==
    [][/\ HandleSubmit
          => /\ DOMAIN LastResponse = {"input"}
             /\ LastResponse.input =
                    CASE gate.input_type = "number" -> ParsedNumber(inputValue)
                      [] gate.input_type = "boolean" ->
                             [t |-> "boolean", b |-> IsTrueIgnoringCase(inputValue)]
                      [] OTHER -> [t |-> "string", chars |-> inputValue]
       /\ HandleCancel
          => /\ LastResponse = [cancelled |-> TRUE]
             /\ "input" \notin DOMAIN LastResponse
             /\ LastResponse # handleSubmit(gate.input_type, Empty)]_vars

\* C28 witness: the boolean kind was answered with "TRUE" entered, and the
\* call is complete with the answer true
C28_Witness ==
    /\ gate.tool = "requestHumanInput"
    /\ gate.input_type = "boolean"
    /\ gate.status = "complete"
    /\ inputValue = <<"T", "R", "U", "E">>
    /\ responses = <<[input |-> [t |-> "boolean", b |-> TRUE]]>>


\* C29: respond is invoked for a call only while its status is 'executing', and
\* only when it has not been invoked for that call before.
C29_AnsweredAtMostOnce ==
    [][Len(responses') > Len(responses)
       => /\ gate.status = "executing"
          /\ responses = <<>>]_vars


\* C31: handling an agent_status_update leaves the agent it names with the
\* progress of the event when the event has one, and with 100 for the status
\* completed and 0 for any other status when it has none; the activity log gets
\* one new entry, for that agent, in front of the entries it had.
C31_EventProgress ==
    [][\A data \in AgentStatusUpdates :
           (/\ lastOp'.op = "agent_status_update"
            /\ lastOp'.id = data.agentId
            /\ lastOp'.arg = data.status
            /\ AgentStatusEvent(data))
           => /\ \A i \in DOMAIN agents :
                     agents[i].id = data.agentId
                     => agents'[i].progress =
                            IF data.progress # Undef THEN data.progress
                            ELSE IF data.status = "completed" THEN Num(100)
                            ELSE Num(0)
              /\ Len(activityLog') = Len(activityLog) + 1
              /\ activityLog'[1].agentId = data.agentId.prefix
              /\ SubSeq(activityLog', 2, Len(activityLog')) = activityLog]_vars

\* C31 witness: an event that completed the first agent and carried the
\* progress 50 was handled, and the log has its one entry
C31_Witness ==
    /\ lastOp.op = "agent_status_update"
    /\ lastOp.id = AgentCatalog[1]
    /\ agents[1].status = "completed"
    /\ agents[1].progress = Num(50)
    /\ Len(activityLog) = 1
    /\ activityLog[1].agentId = AgentCatalog[1].prefix


\* C32: the executing flag of the store is set exactly when some stored
\* workflow has the status running.
C32_ExecutingIffRunning ==
    isExecuting <=> \E i \in DOMAIN workflows : workflows[i].status = "running"


\* C33: the hook's isExecuting is true exactly while some tool handler is
\* between its invocation and its return.
C33_HookExecutingWhileInFlight ==
    hookIsExecuting <=> \E i \in DOMAIN handlers : handlers[i].pc = "awaiting"


\* C34: while a component uses the hook, every step in which the manager becomes
\* connected or stops being connected invokes the registered callback, so that
\* the hook's isConnected is the manager's connection state after the step.
C34_HookTracksConnection ==
    [][(Mounted /\ Mounted' /\ IsConnected' # IsConnected)
       => isConnected' = IsConnected']_vars


\* C35: a dispatch invokes every callback that was registered for the event when
\* it began, once each and in order, whatever the callbacks unregister while it
\* runs; and off(event, cb) takes one registration of cb out of the list of the
\* event, when there is one, and leaves every other registration as it was.
C35_DispatchToAllRegistered ==
    [][/\ lastOp'.op \in ListenedEvents
          => delivered' = eventListeners[lastOp'.op]
       /\ lastOp'.op = "off"
          => LET old == eventListeners[lastOp'.arg]
                 new == eventListeners'[lastOp'.arg]
                 cb == lastOp'.id.prefix
             IN  /\ \A e \in Events \ {lastOp'.arg} :
                        eventListeners'[e] = eventListeners[e]
                 /\ IF \E k \in DOMAIN old : old[k] = cb
                    THEN \E k \in DOMAIN old :
                             /\ old[k] = cb
                             /\ new = SubSeq(old, 1, k - 1) \o SubSeq(old, k + 1, Len(old))
                    ELSE new = old]_vars


\* C36: a request made right after a successful login or refresh carries
\* Authorization: Bearer <the access token the manager holds>, and one made
\* right after a logout or a failed refresh carries no Authorization header.
C36_RequestsCarryToken ==
    [][RequestInterceptor
       => /\ lastAuthOp \in {"login", "refresh"}
             => headers'.Authorization = Bearer(tokens.accessToken)
          /\ lastAuthOp \in {"logout", "refresh failed"}
             => headers'.Authorization = Undef]_vars

\* C37: getAuthHeaders() returns Bearer <access token> as Authorization when the
\* manager holds tokens that have not expired, and no Authorization header when
\* it holds no tokens.
C37_AuthHeadersIffValidToken ==
    [][GetAuthHeaders
       => /\ (tokens # Null /\ ~isTokenExpired(A, now))
             => headers'.Authorization = Bearer(tokens.accessToken)
          /\ tokens = Null => headers'.Authorization = Undef]_vars


\* C38: a healthCheck() call makes at most two attempts, and once it has
\* settled it has returned true exactly when its last attempt succeeded.
C38_HealthCheckTwoAttempts ==
    /\ attemptsMade <= 2
    /\ pc \in {"returned", "thrown"}
       => (healthCheck(outcome) <=> lastRaw.kind = "ok")

====
